---------------------------- MODULE Spec2Model ----------------------------
(***************************************************************************)
(* A model of pynndescent/utils.py: the bounded max-heaps that hold each   *)
(* point's neighbour list, the push family, deheap_sort, the candidate     *)
(* builder and the two graph updaters.                                     *)
(*                                                                         *)
(* float32 values are modelled by their IEEE-754 bit patterns.  Only       *)
(* non-negative floats occur (distances, abs() priorities), and on those   *)
(* the order of the bit patterns as integers is the order of the floats:   *)
(* 0 is 0.0, Inf is +infinity, every pattern above Inf is a NaN.           *)
(***************************************************************************)
EXTENDS Integers, Sequences, FiniteSets, TLC

VARIABLES
    graph,      \* the heap (indices, distances, flags), each n_points x size
    phase,      \* "heap": rows are heaps; "sorted": deheap_sort has run
    ret,        \* the value returned by the last push
    npush,      \* pushes made so far
    out,        \* what deheap_sort returned: (indices, weights)
    pushed,     \* history: the triples pushed into each row, or the values drawn
    call,       \* the function that runs in a round, "none" outside rounds
    n_threads,  \* numba.get_num_threads()
    updates,    \* the update batch: a list of lists of triples (p, q, d)
    pos,        \* per lane: the iterations of its loop that are done
    changes,    \* per lane: its n_changes
    in_graph,   \* per row: the set of ids the high-memory updater keeps
    graph0,     \* history: the graph the call started from
    writes,     \* history: (lane, row) of the rows each lane has pushed into
    inserts,    \* history: the pushes that changed a row
    cleared,    \* rows the flag-clearing prange has done
    candidates, \* new and old candidate tables (indices, priority)
    rng_state,  \* the caller's three state words
    local_rng_state,    \* per lane: its own three state words
    max_candidates,
    graph_indices,  \* the candidate table of the initializers
    data,       \* the points of the initializers, one coordinate each
    evals,      \* history: the cells (i, idx) the metric was evaluated for
    table,      \* the visited table: an array of bytes
    marked,     \* history: the ids mark_visited was called with
    n_samples,  \* rejection_sample: the number of samples asked for
    pool_size,  \* rejection_sample: the size of the pool
    result      \* rejection_sample: the result array

heapVars == <<graph, phase, ret, npush, out>>
roundVars == <<call, n_threads, updates, pos, changes, in_graph, graph0, writes,
               inserts, cleared>>
buildVars == <<candidates, rng_state, local_rng_state, max_candidates>>
initVars == <<graph_indices, data, evals>>
visitVars == <<table, marked>>
sampleVars == <<n_samples, pool_size, result>>
otherVars == <<initVars, visitVars, sampleVars>>
vars == <<heapVars, pushed, roundVars, buildVars, otherVars>>

-----------------------------------------------------------------------------
(* Bounds of the model *)

NPoints == 2        \* rows of the graph
HeapSize == 3       \* slots of a row
MaxWeight == 1      \* finite weights pushed are the floats with patterns 0..MaxWeight
MaxIndex == 3       \* neighbour ids pushed are 0..MaxIndex
MaxPushes == 4      \* pushes in one behaviour
MaxCalls == 3       \* pushes in one behaviour of SpecCalls
SortSize == 4       \* slots of the row that SpecSort sorts
SortPushes == 5     \* pushes in one behaviour of SpecSort
MaxSortWeight == 2  \* SpecSort pushes the floats with patterns 0..MaxSortWeight
MaxExtracts == 4    \* smallest_flagged calls in one behaviour of SpecExtract
MaxSamples == 3     \* rejection_sample: n_samples is 0..MaxSamples
MaxPool == 3        \* rejection_sample: pool_size is 0..MaxPool
MaxDraws == 8       \* rejection_sample: draws in one behaviour of SpecSample
NVisit == 11        \* the visited table is for the ids 0..NVisit-1
MaxMarks == 4       \* mark_visited calls in one behaviour of SpecVisited

-----------------------------------------------------------------------------
(* float32 *)

Inf == 2139095040   \* 0x7F800000, np.inf as float32

IsNaN(a) == a > Inf

\* The ordered comparisons of IEEE-754: false as soon as an operand is a NaN.
FLt(a, b) == ~IsNaN(a) /\ ~IsNaN(b) /\ a < b
FGt(a, b) == ~IsNaN(a) /\ ~IsNaN(b) /\ a > b
FGe(a, b) == ~IsNaN(a) /\ ~IsNaN(b) /\ a >= b

-----------------------------------------------------------------------------
(* Arrays are functions on 0..size-1, as in the source. *)

Shape(a) == Cardinality(DOMAIN a)

Rows == 0 .. NPoints - 1

make_heap(n_points, size) ==
    [indices   |-> [i \in 0 .. n_points - 1 |-> [j \in 0 .. size - 1 |-> -1]],
     distances |-> [i \in 0 .. n_points - 1 |-> [j \in 0 .. size - 1 |-> Inf]],
     flags     |-> [i \in 0 .. n_points - 1 |-> [j \in 0 .. size - 1 |-> 0]]]

\* SwapChild with the comparison of the two children forgotten.
SwapChild_LeftOnly(priorities, i, p) ==
    LET size == Shape(priorities)
        ic1 == 2 * i + 1
    IN  IF ic1 >= size THEN -1
        ELSE IF FGt(priorities[ic1], p) THEN ic1 ELSE -1

\* One pass of the descent loop of the push family: the child the element
\* of weight p at slot i is swapped with, or -1 for break.
SwapChild(priorities, i, p) ==
    LET size == Shape(priorities)
        ic1 == 2 * i + 1
        ic2 == ic1 + 1
    IN  IF ic1 >= size THEN -1
        ELSE IF ic2 >= size
            THEN IF FGt(priorities[ic1], p) THEN ic1 ELSE -1
        ELSE IF FGe(priorities[ic1], priorities[ic2])
            THEN IF FLt(p, priorities[ic1]) THEN ic1 ELSE -1
        ELSE IF FLt(p, priorities[ic2]) THEN ic2 ELSE -1

\* The descent loop of the three-array pushes, from slot i, and the final
\* store of the pushed element (the push then returns 1).  i_swap is passed
\* to a second operator so that it is computed once per pass.
RECURSIVE Descend3(_, _, _, _, _, _, _)
Descend3Pass(priorities, indices, flags, i, p, n, f, i_swap) ==
    IF i_swap = -1
    THEN [priorities |-> [priorities EXCEPT ![i] = p],
          indices    |-> [indices EXCEPT ![i] = n],
          flags      |-> [flags EXCEPT ![i] = f],
          ret        |-> 1]
    ELSE Descend3([priorities EXCEPT ![i] = priorities[i_swap]],
                  [indices EXCEPT ![i] = indices[i_swap]],
                  [flags EXCEPT ![i] = flags[i_swap]],
                  i_swap, p, n, f)

Descend3(priorities, indices, flags, i, p, n, f) ==
    Descend3Pass(priorities, indices, flags, i, p, n, f,
                 SwapChild(priorities, i, p))

\* The descent loop of the two-array pushes: no flags are moved.
RECURSIVE Descend2(_, _, _, _, _)
Descend2Pass(priorities, indices, i, p, n, i_swap) ==
    IF i_swap = -1
    THEN [priorities |-> [priorities EXCEPT ![i] = p],
          indices    |-> [indices EXCEPT ![i] = n],
          ret        |-> 1]
    ELSE Descend2([priorities EXCEPT ![i] = priorities[i_swap]],
                  [indices EXCEPT ![i] = indices[i_swap]],
                  i_swap, p, n)

Descend2(priorities, indices, i, p, n) ==
    Descend2Pass(priorities, indices, i, p, n, SwapChild(priorities, i, p))

\* Contains with the scan one slot short.
Contains_OneShort(indices, n) ==
    \E i \in 0 .. Shape(indices) - 2 : indices[i] = n

\* for i in range(size): if n == indices[i]: return 0
Contains(indices, n) == \E i \in DOMAIN indices : indices[i] = n

Rejected3(priorities, indices, flags) ==
    [priorities |-> priorities, indices |-> indices, flags |-> flags, ret |-> 0]

Rejected2(priorities, indices) ==
    [priorities |-> priorities, indices |-> indices, ret |-> 0]

\* insert val at position zero, then descend
Inserted3(priorities, indices, flags, p, n, f) ==
    Descend3([priorities EXCEPT ![0] = p], [indices EXCEPT ![0] = n],
             [flags EXCEPT ![0] = f], 0, p, n, f)

Inserted2(priorities, indices, p, n) ==
    Descend2([priorities EXCEPT ![0] = p], [indices EXCEPT ![0] = n], 0, p, n)

simple_heap_push(priorities, indices, p, n) ==
    IF FGe(p, priorities[0]) THEN Rejected2(priorities, indices)
    ELSE Inserted2(priorities, indices, p, n)

checked_heap_push(priorities, indices, p, n) ==
    IF FGe(p, priorities[0]) THEN Rejected2(priorities, indices)
    ELSE IF Contains(indices, n) THEN Rejected2(priorities, indices)
    ELSE Inserted2(priorities, indices, p, n)

\* flagged_heap_push rejecting only strictly larger weights.
flagged_heap_push_Strict(priorities, indices, flags, p, n, f) ==
    IF FGt(p, priorities[0]) THEN Rejected3(priorities, indices, flags)
    ELSE Inserted3(priorities, indices, flags, p, n, f)

flagged_heap_push(priorities, indices, flags, p, n, f) ==
    IF FGe(p, priorities[0]) THEN Rejected3(priorities, indices, flags)
    ELSE Inserted3(priorities, indices, flags, p, n, f)

\* checked_flagged_heap_push with the scan for the index left out.
checked_flagged_heap_push_NoScan(priorities, indices, flags, p, n, f) ==
    IF FGe(p, priorities[0]) THEN Rejected3(priorities, indices, flags)
    ELSE Inserted3(priorities, indices, flags, p, n, f)

checked_flagged_heap_push(priorities, indices, flags, p, n, f) ==
    IF FGe(p, priorities[0]) THEN Rejected3(priorities, indices, flags)
    ELSE IF Contains(indices, n) THEN Rejected3(priorities, indices, flags)
    ELSE Inserted3(priorities, indices, flags, p, n, f)

\* The heap with row `row` replaced by the three arrays of r, and r's return
\* value.
RowResult3(heap, row, r) ==
    [heap |-> [indices   |-> [heap.indices EXCEPT ![row] = r.indices],
               distances |-> [heap.distances EXCEPT ![row] = r.priorities],
               flags     |-> [heap.flags EXCEPT ![row] = r.flags]],
     ret  |-> r.ret]

\* The same for a two-array push into the row: the flags are not touched.
RowResult2(heap, row, r) ==
    [heap |-> [indices   |-> [heap.indices EXCEPT ![row] = r.indices],
               distances |-> [heap.distances EXCEPT ![row] = r.priorities],
               flags     |-> heap.flags],
     ret  |-> r.ret]

\* np.uint8(flag)
U8(flag) == flag % 256

heap_push(heap, row, weight, index, flag) ==
    LET indices == heap.indices[row]
        weights == heap.distances[row]
        is_new  == heap.flags[row]
    IN  RowResult3(heap, row,
            IF FGe(weight, weights[0]) THEN Rejected3(weights, indices, is_new)
            ELSE IF Contains(indices, index) THEN Rejected3(weights, indices, is_new)
            ELSE Inserted3(weights, indices, is_new, weight, index, U8(flag)))

unchecked_heap_push(heap, row, weight, index, flag) ==
    LET indices == heap.indices[row]
        weights == heap.distances[row]
        is_new  == heap.flags[row]
    IN  RowResult3(heap, row,
            IF FGe(weight, heap.distances[row][0])
            THEN Rejected3(weights, indices, is_new)
            ELSE Inserted3(weights, indices, is_new, weight, index, flag))

-----------------------------------------------------------------------------
(* deheap_sort *)

\* A slice a[:len] and the array a seen through a write to the slice.
Slice(a, len) == [k \in 0 .. len - 1 |-> a[k]]
Unslice(a, s) == [k \in DOMAIN a |-> IF k \in DOMAIN s THEN s[k] ELSE a[k]]

Swapped(a, i, j) == [a EXCEPT ![i] = a[j], ![j] = a[i]]

RECURSIVE siftdown(_, _, _)
\* siftdown with the right child never looked at.
siftdown_LeftOnly(heap1, heap2, elt) ==
    IF ~(elt * 2 + 1 < Shape(heap1))
    THEN [heap1 |-> heap1, heap2 |-> heap2]
    ELSE LET left_child == elt * 2 + 1
             swap == IF FLt(heap1[elt], heap1[left_child]) THEN left_child ELSE elt
         IN  IF swap = elt
             THEN [heap1 |-> heap1, heap2 |-> heap2]
             ELSE siftdown(Swapped(heap1, elt, swap), Swapped(heap2, elt, swap), swap)

siftdown(heap1, heap2, elt) ==
    IF ~(elt * 2 + 1 < Shape(heap1))
    THEN [heap1 |-> heap1, heap2 |-> heap2]
    ELSE LET left_child == elt * 2 + 1
             right_child == left_child + 1
             swap1 == IF FLt(heap1[elt], heap1[left_child]) THEN left_child ELSE elt
             swap == IF right_child < Shape(heap1) /\ FLt(heap1[swap1], heap1[right_child])
                     THEN right_child ELSE swap1
         IN  IF swap = elt
             THEN [heap1 |-> heap1, heap2 |-> heap2]
             ELSE siftdown(Swapped(heap1, elt, swap), Swapped(heap2, elt, swap), swap)

\* Pass j of the inner loop of deheap_sort on one row: the root goes to the
\* last unsorted slot and the shrunk prefix is sifted.
SortPass(ind_heap, dist_heap, j) ==
    LET last == Shape(ind_heap) - j - 1
    IN  siftdown(Slice(Swapped(dist_heap, 0, last), last),
                 Slice(Swapped(ind_heap, 0, last), last), 0)

RECURSIVE SortRow(_, _, _)
SortRow(ind_heap, dist_heap, j) ==
    IF j >= Shape(ind_heap) - 1
    THEN [indices |-> ind_heap, weights |-> dist_heap]
    ELSE LET last == Shape(ind_heap) - j - 1
         IN  \* the pass is bound once, by CHOOSE over a singleton
             LET s == CHOOSE x \in {SortPass(ind_heap, dist_heap, j)} : TRUE
             IN  SortRow(Unslice(Swapped(ind_heap, 0, last), s.heap2),
                         Unslice(Swapped(dist_heap, 0, last), s.heap1), j + 1)

\* The heap after deheap_sort, which sorts heap[0] and heap[1] in place and
\* never reads heap[2], and the pair it returns: indices.astype(np.int64)
\* holds the values of the sorted heap[0], weights is the sorted heap[1].
deheap_sort(heap) ==
    LET sorted == [i \in DOMAIN heap.indices |->
                      SortRow(heap.indices[i], heap.distances[i], 0)]
        indices == [i \in DOMAIN heap.indices |-> sorted[i].indices]
        weights == [i \in DOMAIN heap.indices |-> sorted[i].weights]
    IN  [heap |-> [indices |-> indices, distances |-> weights, flags |-> heap.flags],
         out  |-> <<indices, weights>>]

-----------------------------------------------------------------------------
(* The push family applied to a row of the graph. *)

Variants == {"heap_push", "unchecked_heap_push", "simple_heap_push",
             "checked_heap_push", "flagged_heap_push",
             "checked_flagged_heap_push"}

CheckedVariants == {"heap_push", "checked_heap_push", "checked_flagged_heap_push"}

\* The variants that take a flag and carry the flags through the swaps.
FlaggedVariants == {"heap_push", "unchecked_heap_push", "flagged_heap_push",
                    "checked_flagged_heap_push"}

PushTo(heap, v, row, w, n, f) ==
    LET P == heap.distances[row]
        I == heap.indices[row]
        F == heap.flags[row]
    IN  CASE v = "heap_push" -> heap_push(heap, row, w, n, f)
          [] v = "unchecked_heap_push" -> unchecked_heap_push(heap, row, w, n, f)
          [] v = "simple_heap_push" ->
                RowResult2(heap, row, simple_heap_push(P, I, w, n))
          [] v = "checked_heap_push" ->
                RowResult2(heap, row, checked_heap_push(P, I, w, n))
          [] v = "flagged_heap_push" ->
                RowResult3(heap, row, flagged_heap_push(P, I, F, w, n, f))
          [] v = "checked_flagged_heap_push" ->
                RowResult3(heap, row, checked_flagged_heap_push(P, I, F, w, n, f))

Weights == 0 .. MaxWeight
Indexes == 0 .. MaxIndex
Flags == {0, 1}

NoResult == <<>>

\* Everything outside the heap that a heap operation leaves alone.
HeapFrame == UNCHANGED <<roundVars, buildVars, otherVars>>

\* No initializer, visited table or sampler is in use.
NoOther ==
    /\ graph_indices = <<>>
    /\ data = <<>>
    /\ evals = {}
    /\ table = <<>>
    /\ marked = {}
    /\ n_samples = 0
    /\ pool_size = 0
    /\ result = <<>>

\* No round runs.
NoRound ==
    /\ NoOther
    /\ call = "none"
    /\ n_threads = 1
    /\ updates = <<>>
    /\ pos = <<>>
    /\ changes = <<>>
    /\ in_graph = <<>>
    /\ graph0 = <<>>
    /\ writes = {}
    /\ inserts = 0
    /\ cleared = {}
    /\ candidates = <<>>
    /\ rng_state = <<>>
    /\ local_rng_state = <<>>
    /\ max_candidates = 0

PushOp(v, row, w, n, f) ==
    /\ phase = "heap"
    /\ \E r \in {PushTo(graph, v, row, w, n, f)} :
           /\ graph' = r.heap
           /\ ret' = r.ret
    /\ npush' = npush + 1
    /\ UNCHANGED <<phase, out>>
    /\ HeapFrame

Push(v, row, w, n, f) ==
    npush < MaxPushes /\ PushOp(v, row, w, n, f) /\ UNCHANGED pushed

\* A push of a variant that takes a flag.
PushFlagged ==
    \E v \in FlaggedVariants, row \in Rows, w \in Weights, n \in Indexes, f \in Flags :
        Push(v, row, w, n, f)

\* A push of a two-array variant: there is no flag argument.
PushPlain ==
    \E v \in Variants \ FlaggedVariants, row \in Rows, w \in Weights, n \in Indexes :
        Push(v, row, w, n, 0)

\* finalize: deheap_sort on the graph.
Finalize ==
    /\ phase = "heap"
    /\ \E r \in {deheap_sort(graph)} :
           /\ graph' = r.heap
           /\ out' = r.out
    /\ phase' = "sorted"
    /\ UNCHANGED <<ret, npush, pushed>>
    /\ HeapFrame

InitHeap ==
    /\ graph = make_heap(NPoints, HeapSize)
    /\ phase = "heap"
    /\ ret = 0
    /\ npush = 0
    /\ out = NoResult
    /\ pushed = [row \in Rows |-> {}]
    /\ NoRound

Init == InitHeap

Next == PushFlagged \/ PushPlain

\* Pushes of every variant into the rows of make_heap's graph.
Spec == Init /\ [][Next]_vars

-----------------------------------------------------------------------------
(* Shorter runs of pushes of every variant, for the properties that look   *)
(* at every call that could come next.                                     *)

Call(v, row, w, n, f) ==
    npush < MaxCalls /\ PushOp(v, row, w, n, f) /\ UNCHANGED pushed

CallFlagged ==
    \E v \in FlaggedVariants, row \in Rows, w \in Weights, n \in Indexes, f \in Flags :
        Call(v, row, w, n, f)

CallPlain ==
    \E v \in Variants \ FlaggedVariants, row \in Rows, w \in Weights, n \in Indexes :
        Call(v, row, w, n, 0)

NextCalls == CallFlagged \/ CallPlain

SpecCalls == Init /\ [][NextCalls]_vars

-----------------------------------------------------------------------------
(* deheap_sort of one row that flagged pushes with distinct ids have built. *)
(* The row has SortSize slots, so that siftdown meets nodes with two        *)
(* children.                                                                *)

InitSort ==
    /\ graph = make_heap(1, SortSize)
    /\ phase = "heap"
    /\ ret = 0
    /\ npush = 0
    /\ out = NoResult
    /\ pushed = [row \in Rows |-> {}]
    /\ NoRound

SortPush ==
    \E w \in 0 .. MaxSortWeight, f \in Flags :
        /\ npush < SortPushes
        /\ PushOp("flagged_heap_push", 0, w, npush, f)
        /\ UNCHANGED pushed

NextSort == SortPush \/ Finalize

SpecSort == InitSort /\ [][NextSort]_vars

-----------------------------------------------------------------------------
(* smallest_flagged *)

RECURSIVE FlaggedScan(_, _, _, _, _)
\* The scan that stops at the first flagged slot.
FlaggedScan_First(dist, flag, i, min_dist, result_index) ==
    IF i >= Shape(dist) THEN result_index
    ELSE IF flag[i] = 1 /\ result_index = -1
         THEN FlaggedScan(dist, flag, i + 1, dist[i], i)
         ELSE FlaggedScan(dist, flag, i + 1, min_dist, result_index)

\* for i in range(ind.shape[0]): if flag[i] == 1 and dist[i] < min_dist: ...
FlaggedScan(dist, flag, i, min_dist, result_index) ==
    IF i >= Shape(dist) THEN result_index
    ELSE IF flag[i] = 1 /\ FLt(dist[i], min_dist)
         THEN FlaggedScan(dist, flag, i + 1, dist[i], i)
         ELSE FlaggedScan(dist, flag, i + 1, min_dist, result_index)

\* The end of smallest_flagged, result_index being the slot the scan found.
FlaggedFound(heap, row, result_index) ==
    IF result_index >= 0
    THEN [heap |-> [heap EXCEPT !.flags[row][result_index] = 0],
          ret  |-> heap.indices[row][result_index],
          slot |-> result_index]
    ELSE [heap |-> heap, ret |-> -1, slot |-> -1]

smallest_flagged(heap, row) ==
    FlaggedFound(heap, row,
                 FlaggedScan(heap.distances[row], heap.flags[row], 0, Inf, -1))

\* Flagged pushes with distinct ids into the rows, then calls of
\* smallest_flagged with no push in between.  out is the history of the
\* calls: the row, the id returned and the distance of the slot found.
ExtractPush ==
    \E row \in Rows, w \in Weights, f \in Flags :
        /\ npush < MaxPushes
        /\ PushOp("flagged_heap_push", row, w, npush, f)
        /\ UNCHANGED pushed

Extract ==
    \E row \in Rows :
        /\ phase \in {"heap", "extract"}
        /\ Len(out) < MaxExtracts
        /\ \E r \in {smallest_flagged(graph, row)} :
               /\ graph' = r.heap
               /\ ret' = r.ret
               /\ out' = Append(out, <<row, r.ret,
                                       IF r.slot >= 0 THEN graph.distances[row][r.slot]
                                       ELSE Inf>>)
        /\ phase' = "extract"
        /\ UNCHANGED <<npush, pushed>>
        /\ HeapFrame

NextExtract == ExtractPush \/ Extract

SpecExtract == Init /\ [][NextExtract]_vars

-----------------------------------------------------------------------------
(* Checked pushes only; the sentinel id -1 is pushed too. *)

PushChecked ==
    \E v \in CheckedVariants, row \in Rows, w \in Weights,
       n \in {-1} \cup Indexes, f \in Flags :
        /\ (v = "checked_heap_push" => f = 0)
        /\ Push(v, row, w, n, f)

SpecChecked == Init /\ [][PushChecked]_vars

-----------------------------------------------------------------------------
(* Pushes with pairwise-distinct indices into the rows, with their history. *)
(* A row is pushed into either by the variants that take a flag or by the  *)
(* two-array variants, which know no flags (the flags of the row stay 0).  *)

PushedIds(row) == {e.n : e \in pushed[row]}

\* The history records whether the push took a flag (fl) and, if so, which.
PushDistinct(v, row, w, n, f) ==
    /\ npush < MaxPushes
    /\ n \notin PushedIds(row)
    /\ \A e \in pushed[row] : e.fl = (v \in FlaggedVariants)
    /\ PushOp(v, row, w, n, f)
    /\ pushed' = [pushed EXCEPT ![row] =
                     @ \cup {[w |-> w, n |-> n, f |-> f, fl |-> v \in FlaggedVariants]}]

PushDistinctFlagged ==
    \E v \in FlaggedVariants, row \in Rows, w \in Weights, n \in Indexes, f \in Flags :
        PushDistinct(v, row, w, n, f)

PushDistinctPlain ==
    \E v \in Variants \ FlaggedVariants, row \in Rows, w \in Weights, n \in Indexes :
        PushDistinct(v, row, w, n, 0)

NextBest == PushDistinctFlagged \/ PushDistinctPlain

SpecBest == Init /\ [][NextBest]_vars

-----------------------------------------------------------------------------
(* The random number generator.                                            *)
(* A state word is an int64.  The model keeps the words whose bits 32..63  *)
(* are all equal (the values -2^32 .. 2^32 - 1, which tau_rand_int maps to *)
(* such values again): a word is a function on 0..32, bit 32 standing for  *)
(* every bit from 32 up.                                                   *)

Bits == 0 .. 32

\* The word of an integer -2^31 <= x < 2^31.
ToWord(x) ==
    [k \in Bits |-> IF k >= 31 THEN (IF x < 0 THEN 1 ELSE 0) ELSE (x \div 2^k) % 2]

\* a ^ b
Xor(a, b) == [k \in Bits |-> (a[k] + b[k]) % 2]

\* a & m for the masks 4294967294, 4294967288, 4294967280 and 0xFFFFFFFF,
\* whose set bits are lo..31.
AndFrom(a, lo) == [k \in Bits |-> IF lo <= k /\ k <= 31 THEN a[k] ELSE 0]

\* (a << s) & 0xFFFFFFFF
Shl32(a, s) == [k \in Bits |-> IF s <= k /\ k <= 31 THEN a[k - s] ELSE 0]

\* a >> s, the arithmetic shift of int64
Sar(a, s) == [k \in Bits |-> a[IF k + s > 32 THEN 32 ELSE k + s]]

\* (((w & m) << s1) & 0xFFFFFFFF) ^ ((((w << s2) & 0xFFFFFFFF) ^ w) >> s3)
Taus(w, lo, s1, s2, s3) ==
    Xor(Shl32(AndFrom(w, lo), s1), Sar(Xor(Shl32(w, s2), w), s3))

RECURSIVE BitsValue(_, _, _, _)
\* The number whose bits 0..hi-lo are b's bits lo..hi, each xor-ed with
\* flip: the lower half of the bits, then the upper half.
BitsValue(b, lo, hi, flip) ==
    IF lo = hi THEN (b[lo] + flip) % 2
    ELSE BitsValue(b, lo, (lo + hi) \div 2, flip)
         + 2^((lo + hi) \div 2 + 1 - lo) * BitsValue(b, (lo + hi) \div 2 + 1, hi, flip)

\* The i4 that the int64 word is returned as.
ToInt32(w) ==
    IF w[31] = 0 THEN BitsValue(w, 0, 30, 0) ELSE (0 - BitsValue(w, 0, 30, 1)) - 1

TausStep(state) ==
    [k \in 0 .. 2 |-> CASE k = 0 -> Taus(state[0], 1, 12, 13, 19)
                        [] k = 1 -> Taus(state[1], 3, 4, 2, 25)
                        [] k = 2 -> Taus(state[2], 4, 17, 3, 11)]

TausOut(state) == [state |-> state, value |-> Xor(Xor(state[0], state[1]), state[2])]

\* Returns the new state words with the value drawn.
tau_rand_int(state) == TausOut(TausStep(state))

\* The place of the highest set bit of 0 < a < 2^31.
Log2(a) == CHOOSE t \in 0 .. 30 : a \div 2^t = 1

\* The 24-bit significand of a / 0x7FFFFFFF for 2^t <= a < 2^(t+1): the
\* quotient is a * 2^-31 * (1 + e) with 0 < e < 2^-30, so the bits below
\* the 24th are those of a, a half rounds up, and the float64 quotient of
\* 2^31 - 65 is an exact half above an odd significand.
Significand(a, t) ==
    IF t <= 23 THEN a * 2^(23 - t)
    ELSE IF 2 * (a % 2^(t - 23)) >= 2^(t - 23) \/ a = 2147483583
         THEN a \div 2^(t - 23) + 1
         ELSE a \div 2^(t - 23)

\* The float32 of a / 0x7FFFFFFF for 0 <= a < 2^31.
RatioBits(a, t) == (t + 95) * 2^23 + Significand(a, t)

Ratio(a) == IF a = 0 THEN 0 ELSE RatioBits(a, Log2(a))

\* abs(float(integer) / 0x7FFFFFFF) as float32, integer being the i4 of w;
\* 127 * 2^23 is 1.0.
AbsRatio(w) ==
    IF w[31] = 0 THEN Ratio(BitsValue(w, 0, 30, 0))
    ELSE IF BitsValue(w, 0, 30, 1) = 2147483647 THEN 127 * 2^23
    ELSE Ratio(BitsValue(w, 0, 30, 1) + 1)

TauRandOut(r) == [state |-> r.state, value |-> AbsRatio(r.value)]

\* Returns the new state words with the float32 drawn.
tau_rand(state) == TauRandOut(tau_rand_int(state))

-----------------------------------------------------------------------------
(* The graphs a round starts from: rows filled by heap_push.  Row i holds  *)
(* its first s ring successors (i + k) mod n at distance k, new or old.    *)

NVertices == 3      \* points of the graph of a round
NNeighbors == 2     \* slots of a row of that graph
MaxThreads == 2     \* numba.get_num_threads() is 1..MaxThreads
MaxUpdates == 2     \* update triples in a batch
MaxCandidates == 2  \* max_candidates is 1..MaxCandidates

Vertices == 0 .. NVertices - 1

\* The flag of the k-th successor of row i in the flag pattern a.
StartFlag(a, i, k) == IF a = "mixed" THEN (i + k) % 2 ELSE IF a = "new" THEN 1 ELSE 0

RECURSIVE StartFill(_, _, _, _)
\* heap_push of the successors k..s of every row, row after row.
StartFill(heap, s, a, c) ==
    IF c >= NVertices * s THEN heap
    ELSE StartFill(heap_push(heap, c \div s, (c % s) + 1,
                             ((c \div s) + (c % s) + 1) % NVertices,
                             StartFlag(a, c \div s, (c % s) + 1)).heap,
                   s, a, c + 1)

StartGraph(s, a) == StartFill(make_heap(NVertices, NNeighbors), s, a, 0)

\* in_graph as the caller builds it: the set of the ids in each row.
RowIds(heap) ==
    [i \in DOMAIN heap.indices |->
        {heap.indices[i][j] : j \in DOMAIN heap.indices[i]}]

-----------------------------------------------------------------------------
(* apply_graph_updates_low_memory and apply_graph_updates_high_memory *)

RECURSIVE Triples(_)
\* updates[i][j] in the order of the loops over i and j.
Triples(ups) == IF ups = <<>> THEN <<>> ELSE Head(ups) \o Triples(Tail(ups))

\* Lane n of a prange over n_threads owns the rows with row % n_threads == n.
Owns_Div(row, n, T) == row \div T = n

Owns(row, n, T) == row % T = n

\* if p == -1 or q == -1: continue
Skipped(p, q) == p = -1 \/ q = -1

\* The triple of the k-th iteration of lane n (k from 0).
LaneTriple_Backwards(ups, n, k) ==
    IF n = 0 THEN Triples(ups)[k + 1] ELSE Triples(ups)[Len(Triples(ups)) - k]

LaneTriple(ups, n, k) == Triples(ups)[k + 1]

\* What a lane has done to the graph in one iteration: the graph, the sum
\* of the values the pushes returned, the rows pushed into, the pushes
\* that changed a row, and (high memory) the sets of ids.
Untouched(heap, ing) ==
    [heap |-> heap, added |-> 0, rows |-> {}, inserts |-> 0, in_graph |-> ing]

\* n_changes += added, after a push with result r into row.
Counted(st, row, r) ==
    [heap |-> r.heap, added |-> st.added + r.ret, rows |-> st.rows \cup {row},
     inserts |-> st.inserts + (IF r.heap = st.heap THEN 0 ELSE 1),
     in_graph |-> st.in_graph]

CheckedPushInto(heap, row, d, idx) ==
    RowResult3(heap, row,
               checked_flagged_heap_push(heap.distances[row], heap.indices[row],
                                         heap.flags[row], d, idx, 1))

LowPushP(st, T, n, p, q, d) ==
    IF Owns(p, n, T) THEN Counted(st, p, CheckedPushInto(st.heap, p, d, q)) ELSE st

LowPushQ(st, T, n, p, q, d) ==
    IF Owns(q, n, T) THEN Counted(st, q, CheckedPushInto(st.heap, q, d, p)) ELSE st

\* One iteration of the loop over the triples in lane n of T.
LowTriple(heap, T, n, t) ==
    IF Skipped(t[1], t[2]) THEN Untouched(heap, <<>>)
    ELSE LowPushQ(LowPushP(Untouched(heap, <<>>), T, n, t[1], t[2], t[3]),
                  T, n, t[1], t[2], t[3])

FlaggedPushInto(heap, row, d, idx) ==
    RowResult3(heap, row,
               flagged_heap_push(heap.distances[row], heap.indices[row],
                                 heap.flags[row], d, idx, 1))

\* if added > 0: in_graph[row].add(member); n_changes += added
Recorded(st, row, member, r) ==
    IF r.ret > 0
    THEN [heap |-> r.heap, added |-> st.added + r.ret, rows |-> st.rows \cup {row},
          inserts |-> st.inserts + (IF r.heap = st.heap THEN 0 ELSE 1),
          in_graph |-> [st.in_graph EXCEPT ![row] = @ \cup {member}]]
    ELSE [st EXCEPT !.heap = r.heap]

\* The first push of the high-memory loop body: (d, q) into row p.
HighPushP(st, p, q, d) ==
    IF q \in st.in_graph[p] THEN st
    ELSE Recorded(st, p, q, FlaggedPushInto(st.heap, p, d, q))

\* The second push: the source pushes (d, q) into row p again, and adds p
\* to in_graph[q].
HighPushQ(st, p, q, d) ==
    IF p = q \/ p \in st.in_graph[q] THEN st
    ELSE Recorded(st, q, p, FlaggedPushInto(st.heap, p, d, q))

\* One iteration of the loop over the triples, high memory.
HighTriple(heap, ing, t) ==
    IF Skipped(t[1], t[2]) THEN Untouched(heap, ing)
    ELSE IF t[2] \in ing[t[1]] /\ t[1] \in ing[t[2]] THEN Untouched(heap, ing)
    ELSE HighPushQ(HighPushP(Untouched(heap, ing), t[1], t[2], t[3]),
                   t[1], t[2], t[3])

\* The reduction of the lanes' n_changes at the end of the prange.
SumChanges_Lane0(ch) == ch[0]

RECURSIVE SumFrom(_, _)
SumFrom(ch, n) == IF n \notin DOMAIN ch THEN 0 ELSE ch[n] + SumFrom(ch, n + 1)

SumChanges(ch) == SumFrom(ch, 0)

RECURSIVE LowFrom(_, _, _)
\* The graph after lane 0 of 1 has run the triples from the k-th on.
LowFrom(heap, ups, k) ==
    IF k >= Len(Triples(ups)) THEN heap
    ELSE LowFrom(LowTriple(heap, 1, 0, LaneTriple(ups, 0, k)).heap, ups, k + 1)

\* apply_graph_updates_low_memory with one lane.
LowMemoryOneLane(heap, ups) == LowFrom(heap, ups, 0)

-----------------------------------------------------------------------------
(* new_build_candidates *)

\* np.full((n_vertices, max_candidates), -1) and np.full(..., np.inf)
EmptyCandidates(n_vertices, mc) ==
    [indices  |-> [i \in 0 .. n_vertices - 1 |-> [k \in 0 .. mc - 1 |-> -1]],
     priority |-> [i \in 0 .. n_vertices - 1 |-> [k \in 0 .. mc - 1 |-> Inf]]]

CandidateRow(c, row, r) ==
    [indices  |-> [c.indices EXCEPT ![row] = r.indices],
     priority |-> [c.priority EXCEPT ![row] = r.priorities]]

CandidatePush(c, row, d, idx) ==
    CandidateRow(c, row, checked_heap_push(c.priority[row], c.indices[row], d, idx))

\* if i % n_threads == n: checked_heap_push(priority[i], indices[i], d, idx)
PushForward(c, T, n, i, idx, d) ==
    IF Owns(i, n, T) THEN CandidatePush(c, i, d, idx) ELSE c

\* if idx % n_threads == n: checked_heap_push(priority[idx], indices[idx], d, i)
PushBackward(c, T, n, i, idx, d) ==
    IF Owns(idx, n, T) THEN CandidatePush(c, idx, d, i) ELSE c

\* Only the push into the row of the cell.
PushBoth_Forward(c, T, n, i, idx, d) == PushForward(c, T, n, i, idx, d)

PushBoth(c, T, n, i, idx, d) ==
    PushBackward(PushForward(c, T, n, i, idx, d), T, n, i, idx, d)

\* The state words lane n draws from: its own local_rng_state.
RngOf_Shared(n) == 0

RngOf(n) == n

\* Every lane starting from the caller's words themselves.
LocalRngState_Unshifted(rs, n) == [k \in 0 .. 2 |-> ToWord(rs[k])]

\* local_rng_state = rng_state + n
LocalRngState(rs, n) == [k \in 0 .. 2 |-> ToWord(rs[k] + n)]

\* The body of the loop over the cells for a cell that holds an id, r being
\* what tau_rand returned.
BuildDrawn(st, heap, T, n, i, j, r) ==
    [new  |-> IF heap.flags[i][j] # 0
              THEN PushBoth(st.new, T, n, i, heap.indices[i][j], r.value)
              ELSE st.new,
     old  |-> IF heap.flags[i][j] # 0
              THEN st.old
              ELSE PushBoth(st.old, T, n, i, heap.indices[i][j], r.value),
     rng  |-> [st.rng EXCEPT ![RngOf(n)] = r.state],
     rows |-> {row \in {i, heap.indices[i][j]} : Owns(row, n, T)}]

\* One iteration of the loops over i and j in lane n of T, c = i * n_neighbors + j.
BuildCellAt(st, heap, T, n, i, j) ==
    IF heap.indices[i][j] < 0 THEN [st EXCEPT !.rows = {}]
    ELSE BuildDrawn(st, heap, T, n, i, j, tau_rand(st.rng[RngOf(n)]))

BuildCell(st, heap, T, n, c) ==
    BuildCellAt(st, heap, T, n, c \div Shape(heap.indices[0]), c % Shape(heap.indices[0]))

NCells(heap) == Shape(heap.indices) * Shape(heap.indices[0])

\* The second prange clearing every flag of row i.
ClearFlags_All(heap, newc, i) ==
    [heap EXCEPT !.flags[i] = [j \in DOMAIN @ |-> 0]]

\* One iteration of the second prange: the flags of row i.
ClearFlags(heap, newc, i) ==
    [heap EXCEPT !.flags[i] =
        [j \in DOMAIN @ |->
            IF \E k \in DOMAIN newc.indices[i] :
                   newc.indices[i][k] = heap.indices[i][j]
            THEN 0 ELSE @[j]]]

BuildStart(heap, mc, rs, T) ==
    [new  |-> EmptyCandidates(Shape(heap.indices), mc),
     old  |-> EmptyCandidates(Shape(heap.indices), mc),
     rng  |-> [n \in 0 .. T - 1 |-> LocalRngState(rs, n)],
     rows |-> {}]

RECURSIVE BuildLanes(_, _, _, _, _)
\* The lanes n .. T-1 one after the other, lane n from its cell c on: x is
\* what cell c leaves, from which the cells after it go on.
BuildLanes(st, heap, T, n, c) ==
    IF n >= T THEN st
    ELSE IF c >= NCells(heap) THEN BuildLanes(st, heap, T, n + 1, 0)
    ELSE CHOOSE r \in {BuildLanes(x, heap, T, n, c + 1) :
                           x \in {BuildCell(st, heap, T, n, c)}} : TRUE

RECURSIVE ClearFrom(_, _, _)
ClearFrom(heap, newc, i) ==
    IF i >= Shape(heap.indices) THEN heap
    ELSE ClearFrom(ClearFlags(heap, newc, i), newc, i + 1)

\* The graph after new_build_candidates whose T lanes run one after the other.
BuildInOrder(heap, mc, rs, T) ==
    CHOOSE r \in {ClearFrom(heap, st.new, 0) :
                      st \in {BuildLanes(BuildStart(heap, mc, rs, T), heap, T, 0, 0)}} : TRUE

-----------------------------------------------------------------------------
(* One call of an updater or of the candidate builder on a start graph.    *)
(* A step of a lane is one iteration of its loop; the lanes of a prange    *)
(* interleave freely.                                                      *)

Lanes == 0 .. n_threads - 1

TripleSet == ({-1} \cup Vertices) \X ({-1} \cup Vertices) \X Weights

Batches == UNION {[1 .. len -> TripleSet] : len \in 0 .. MaxUpdates}

\* The batch as a list of lists: the first triple, then the others.
Blocks(L) == IF L = <<>> THEN <<>> ELSE <<SubSeq(L, 1, 1), SubSeq(L, 2, Len(L))>>

RngStates == {(0 :> 65535 @@ 1 :> 65535 @@ 2 :> 65535),
              (0 :> 12345 @@ 1 :> 67890 @@ 2 :> 13579),
              (0 :> -5 @@ 1 :> 5 @@ 2 :> -7)}

FlagPatterns == {"new", "old", "mixed"}

InitCall(g, T) ==
    /\ graph = g
    /\ graph0 = g
    /\ phase = "lanes"
    /\ ret = 0
    /\ npush = 0
    /\ out = NoResult
    /\ pushed = [row \in Rows |-> {}]
    /\ n_threads = T
    /\ pos = [n \in 0 .. T - 1 |-> 0]
    /\ changes = [n \in 0 .. T - 1 |-> 0]
    /\ writes = {}
    /\ inserts = 0
    /\ cleared = {}
    /\ NoOther

InitUpdates ==
    \E s \in 0 .. NNeighbors, L \in Batches, T \in 1 .. MaxThreads,
       c \in {"apply_graph_updates_low_memory", "apply_graph_updates_high_memory"} :
        /\ c = "apply_graph_updates_high_memory" => T = 1
        /\ InitCall(StartGraph(s, "new"), T)
        /\ call = c
        /\ updates = Blocks(L)
        /\ in_graph = RowIds(StartGraph(s, "new"))
        /\ candidates = NoResult
        /\ rng_state = NoResult
        /\ local_rng_state = NoResult
        /\ max_candidates = 0

InitBuild ==
    \E s \in 0 .. NNeighbors, a \in FlagPatterns, T \in 1 .. MaxThreads,
       mc \in 1 .. MaxCandidates, rs \in RngStates :
        /\ InitCall(StartGraph(s, a), T)
        /\ call = "new_build_candidates"
        /\ updates = <<>>
        /\ in_graph = NoResult
        /\ candidates = [new |-> EmptyCandidates(NVertices, mc),
                         old |-> EmptyCandidates(NVertices, mc)]
        /\ rng_state = rs
        /\ local_rng_state = [n \in 0 .. T - 1 |-> LocalRngState(rs, n)]
        /\ max_candidates = mc

InitRound == InitUpdates \/ InitBuild

LowMemoryLane(n) ==
    /\ call = "apply_graph_updates_low_memory"
    /\ phase = "lanes"
    /\ pos[n] < Len(Triples(updates))
    /\ \E r \in {LowTriple(graph, n_threads, n, LaneTriple(updates, n, pos[n]))} :
           /\ graph' = r.heap
           /\ changes' = [changes EXCEPT ![n] = @ + r.added]
           /\ writes' = writes \cup {<<n, row>> : row \in r.rows}
           /\ inserts' = inserts + r.inserts
    /\ pos' = [pos EXCEPT ![n] = @ + 1]
    /\ UNCHANGED <<phase, ret, npush, out, pushed, call, n_threads, updates,
                   in_graph, graph0, cleared, buildVars, otherVars>>

LowMemoryStep == \E n \in Lanes : LowMemoryLane(n)

LowMemoryReturn ==
    /\ call = "apply_graph_updates_low_memory"
    /\ phase = "lanes"
    /\ \A n \in Lanes : pos[n] = Len(Triples(updates))
    /\ phase' = "done"
    /\ ret' = SumChanges(changes)
    /\ UNCHANGED <<graph, npush, out, pushed, roundVars, buildVars, otherVars>>

HighMemoryStep ==
    /\ call = "apply_graph_updates_high_memory"
    /\ phase = "lanes"
    /\ pos[0] < Len(Triples(updates))
    /\ \E r \in {HighTriple(graph, in_graph, Triples(updates)[pos[0] + 1])} :
           /\ graph' = r.heap
           /\ in_graph' = r.in_graph
           /\ changes' = [changes EXCEPT ![0] = @ + r.added]
           /\ inserts' = inserts + r.inserts
    /\ pos' = [pos EXCEPT ![0] = @ + 1]
    /\ UNCHANGED <<phase, ret, npush, out, pushed, call, n_threads, updates,
                   graph0, writes, cleared, buildVars, otherVars>>

HighMemoryReturn ==
    /\ call = "apply_graph_updates_high_memory"
    /\ phase = "lanes"
    /\ pos[0] = Len(Triples(updates))
    /\ phase' = "done"
    /\ ret' = changes[0]
    /\ UNCHANGED <<graph, npush, out, pushed, roundVars, buildVars, otherVars>>

BuildLane(n) ==
    /\ call = "new_build_candidates"
    /\ phase = "lanes"
    /\ pos[n] < NCells(graph)
    /\ \E r \in {BuildCell([new |-> candidates.new, old |-> candidates.old,
                           rng |-> local_rng_state, rows |-> {}],
                          graph, n_threads, n, pos[n])} :
           /\ candidates' = [new |-> r.new, old |-> r.old]
           /\ local_rng_state' = r.rng
           /\ writes' = writes \cup {<<n, row>> : row \in r.rows}
    /\ pos' = [pos EXCEPT ![n] = @ + 1]
    /\ UNCHANGED <<heapVars, pushed, call, n_threads, updates, changes, in_graph,
                   graph0, inserts, cleared, rng_state, max_candidates, otherVars>>

BuildStep == \E n \in Lanes : BuildLane(n)

\* The end of the first prange.
BuildJoin ==
    /\ call = "new_build_candidates"
    /\ phase = "lanes"
    /\ \A n \in Lanes : pos[n] = NCells(graph)
    /\ phase' = "clear"
    /\ UNCHANGED <<graph, ret, npush, out, pushed, roundVars, buildVars, otherVars>>

\* An iteration of the second prange, in any order.
ClearStep ==
    \E i \in DOMAIN graph.indices \ cleared :
        /\ call = "new_build_candidates"
        /\ phase = "clear"
        /\ graph' = ClearFlags(graph, candidates.new, i)
        /\ cleared' = cleared \cup {i}
        /\ UNCHANGED <<phase, ret, npush, out, pushed, call, n_threads, updates, pos,
                       changes, in_graph, graph0, writes, inserts, buildVars, otherVars>>

BuildReturn ==
    /\ call = "new_build_candidates"
    /\ phase = "clear"
    /\ cleared = DOMAIN graph.indices
    /\ phase' = "done"
    /\ out' = <<candidates.new.indices, candidates.old.indices>>
    /\ UNCHANGED <<graph, ret, npush, pushed, roundVars, buildVars, otherVars>>

NextRound ==
    \/ LowMemoryStep
    \/ LowMemoryReturn
    \/ HighMemoryStep
    \/ HighMemoryReturn
    \/ BuildStep
    \/ BuildJoin
    \/ ClearStep
    \/ BuildReturn

SpecRound == InitRound /\ [][NextRound]_vars

-----------------------------------------------------------------------------
(* Pushes of any weight, NaN too, by the variants that take three arrays *)

\* A float32 that is not a number.
NaN == Inf + 2^22

ThreeArrayVariants == {"flagged_heap_push", "checked_flagged_heap_push"}

\* A push, with the row and the weight it was called with kept in out.
PushNaN ==
    \E v \in ThreeArrayVariants, row \in Rows, w \in Weights \cup {NaN},
       n \in Indexes, f \in Flags :
        /\ npush < MaxPushes
        /\ phase = "heap"
        /\ \E r \in {PushTo(graph, v, row, w, n, f)} :
               /\ graph' = r.heap
               /\ ret' = r.ret
        /\ npush' = npush + 1
        /\ out' = <<row, w>>
        /\ UNCHANGED <<phase, pushed>>
        /\ HeapFrame

SpecNaN == Init /\ [][PushNaN]_vars

-----------------------------------------------------------------------------
(* seed and rejection_sample *)

\* The first two words are filled.
seed_TwoWords(state, v) ==
    [k \in DOMAIN state |-> IF k < 2 THEN ToWord(v + 65535) ELSE state[k]]

\* rng_state.fill(seed + 0xFFFF)
seed(state, v) == [k \in DOMAIN state |-> ToWord(v + 65535)]

\* The remainder that has the sign of a.
PyMod_Truncated(a, n) == IF a >= 0 THEN a % n ELSE 0 - ((0 - a) % n)

\* a % n for n > 0: the remainder that has the sign of n.
PyMod(a, n) == a % n

\* for k in range(i): if j == result[k]: break
Sampled(res, i, j) == \E k \in 0 .. i - 1 : res[k] = j

\* One pass of the while loop for sample i with the value drawn: the sample
\* is rejected, or it is stored and the for loop goes on with i + 1.
SampleTry(res, i, j) ==
    IF Sampled(res, i, j) THEN [result |-> res, i |-> i]
    ELSE [result |-> [res EXCEPT ![i] = j], i |-> i + 1]

\* The seeds the states are made of.
SeedValues == {-65536, -65535, 0, 1, 42}

SampleStates ==
    {seed([k \in 0 .. 2 |-> ToWord(0)], v) : v \in SeedValues}
    \cup {[k \in 0 .. 2 |-> ToWord(rs[k])] : rs \in RngStates}

\* What the cells of np.empty may hold.
EmptyValues == {0, 5}

InitSample ==
    \E m \in 0 .. MaxSamples, n \in 0 .. MaxPool, rs \in SampleStates :
        /\ graph = NoResult
        /\ phase = "lanes"
        /\ ret = NoResult
        /\ npush = 0
        /\ out = <<>>
        /\ pushed = <<>>
        /\ call = "rejection_sample"
        /\ n_threads = 1
        /\ updates = <<>>
        /\ pos = [l \in {0} |-> 0]
        /\ changes = <<>>
        /\ in_graph = <<>>
        /\ graph0 = NoResult
        /\ writes = {}
        /\ inserts = 0
        /\ cleared = {}
        /\ candidates = NoResult
        /\ rng_state = rs
        /\ local_rng_state = rs
        /\ max_candidates = 0
        /\ graph_indices = <<>>
        /\ data = <<>>
        /\ evals = {}
        /\ table = <<>>
        /\ marked = {}
        /\ n_samples = m
        /\ pool_size = n
        /\ result \in [0 .. m - 1 -> EmptyValues]

\* A pass of the while loop: a draw, and the modulo that raises
\* ZeroDivisionError on an empty pool.
SampleDraw ==
    /\ call = "rejection_sample"
    /\ phase = "lanes"
    /\ pos[0] < n_samples
    /\ npush < MaxDraws
    /\ \E r \in {tau_rand_int(rng_state)} :
           /\ rng_state' = r.state
           /\ pushed' = Append(pushed, ToInt32(r.value))
           /\ IF pool_size = 0
              THEN /\ phase' = "error"
                   /\ UNCHANGED <<pos, result>>
              ELSE \E t \in {SampleTry(result, pos[0], PyMod(ToInt32(r.value), pool_size))} :
                       /\ result' = t.result
                       /\ pos' = [pos EXCEPT ![0] = t.i]
                       /\ phase' = phase
    /\ npush' = npush + 1
    /\ UNCHANGED <<graph, ret, out, call, n_threads, updates, changes, in_graph,
                   graph0, writes, inserts, cleared, candidates, local_rng_state,
                   max_candidates, initVars, visitVars, n_samples, pool_size>>

SampleReturn ==
    /\ call = "rejection_sample"
    /\ phase = "lanes"
    /\ pos[0] = n_samples
    /\ phase' = "done"
    /\ out' = result
    /\ UNCHANGED <<graph, ret, npush, pushed, roundVars, buildVars, otherVars>>

NextSample == SampleDraw \/ SampleReturn

SpecSample == InitSample /\ [][NextSample]_vars

-----------------------------------------------------------------------------
(* Two generators seeded and stepped together *)

InitSeed ==
    \E a \in SampleStates, b \in SampleStates :
        /\ graph = NoResult
        /\ phase = "unseeded"
        /\ ret = NoResult
        /\ npush = 0
        /\ out = <<>>
        /\ pushed = <<a, b>>
        /\ call = "none"
        /\ n_threads = 1
        /\ updates = <<>>
        /\ pos = <<>>
        /\ changes = <<>>
        /\ in_graph = <<>>
        /\ graph0 = <<>>
        /\ writes = {}
        /\ inserts = 0
        /\ cleared = {}
        /\ candidates = <<>>
        /\ rng_state = <<>>
        /\ local_rng_state = [i \in {0, 1} |-> IF i = 0 THEN a ELSE b]
        /\ max_candidates = 0
        /\ NoOther

\* seed(state, v) on both states; ret keeps v.
SeedBoth ==
    \E v \in SeedValues :
        /\ local_rng_state' = [i \in {0, 1} |-> seed(local_rng_state[i], v)]
        /\ phase' = "seeded"
        /\ ret' = v
        /\ npush' = 0
        /\ out' = <<>>
        /\ UNCHANGED <<graph, pushed, roundVars, candidates, rng_state,
                       max_candidates, otherVars>>

\* tau_rand_int on both states; out keeps the two values returned.
DrawBoth ==
    /\ phase \in {"unseeded", "seeded"}
    /\ npush < MaxDraws
    /\ \E ra \in {tau_rand_int(local_rng_state[0])},
          rb \in {tau_rand_int(local_rng_state[1])} :
           /\ local_rng_state' = [i \in {0, 1} |-> IF i = 0 THEN ra.state ELSE rb.state]
           /\ out' = Append(out, <<ToInt32(ra.value), ToInt32(rb.value)>>)
    /\ npush' = npush + 1
    /\ UNCHANGED <<graph, phase, ret, pushed, roundVars, candidates, rng_state,
                   max_candidates, otherVars>>

NextSeed == SeedBoth \/ DrawBoth

SpecSeed == InitSeed /\ [][NextSeed]_vars

-----------------------------------------------------------------------------
(* The visited table *)

\* candidate >> 3 and candidate & 7, for candidate >= 0
ByteOf(candidate) == candidate \div 2^3

LowBits(candidate) == candidate % 8

\* 1 << (candidate & 7)
MaskOf(candidate) == 2^LowBits(candidate)

\* b & mask for a mask of one bit
ByteAnd(b, mask) == IF (b \div mask) % 2 = 1 THEN mask ELSE 0

\* The byte is replaced by the mask.
ByteOr_Assign(b, mask) == U8(mask)

\* b | mask for a mask of one bit, stored as a byte
ByteOr(b, mask) == U8(IF (b \div mask) % 2 = 1 THEN b ELSE b + mask)

\* The b1 returned: whether table[loc] & mask is not zero.
has_been_visited(tbl, candidate) ==
    ByteAnd(tbl[ByteOf(candidate)], MaskOf(candidate)) # 0

\* The table after table[loc] |= mask.
mark_visited(tbl, candidate) ==
    [tbl EXCEPT ![ByteOf(candidate)] = ByteOr(@, MaskOf(candidate))]

\* The ids of the points, and a zeroed table of ceil(n / 8) bytes.
VisitIds == 0 .. NVisit - 1

InitVisited ==
    /\ graph = NoResult
    /\ phase = "visit"
    /\ ret = FALSE
    /\ npush = 0
    /\ out = <<>>
    /\ pushed = <<>>
    /\ call = "none"
    /\ n_threads = 1
    /\ updates = <<>>
    /\ pos = <<>>
    /\ changes = <<>>
    /\ in_graph = <<>>
    /\ graph0 = <<>>
    /\ writes = {}
    /\ inserts = 0
    /\ cleared = {}
    /\ candidates = <<>>
    /\ rng_state = <<>>
    /\ local_rng_state = <<>>
    /\ max_candidates = 0
    /\ graph_indices = <<>>
    /\ data = <<>>
    /\ evals = {}
    /\ table = [loc \in 0 .. ((NVisit + 7) \div 8) - 1 |-> 0]
    /\ marked = {}
    /\ n_samples = 0
    /\ pool_size = 0
    /\ result = <<>>

\* mark_visited(table, candidate); out keeps the call and its id.
MarkVisited ==
    \E candidate \in VisitIds :
        /\ npush < MaxMarks
        /\ table' = mark_visited(table, candidate)
        /\ marked' = marked \cup {candidate}
        /\ npush' = npush + 1
        /\ out' = <<"mark_visited", candidate>>
        /\ UNCHANGED <<graph, phase, ret, pushed, roundVars, buildVars, initVars,
                       sampleVars>>

\* has_been_visited(table, candidate)
HasBeenVisited ==
    \E candidate \in VisitIds :
        /\ ret' = has_been_visited(table, candidate)
        /\ out' = <<"has_been_visited", candidate>>
        /\ UNCHANGED <<graph, phase, npush, pushed, roundVars, buildVars, otherVars>>

NextVisited == MarkVisited \/ HasBeenVisited

SpecVisited == InitVisited /\ [][NextVisited]_vars

-----------------------------------------------------------------------------
(* Properties of the heaps *)

IsMaxHeap(dist) ==
    \A j \in 1 .. Shape(dist) - 1 : FGe(dist[(j - 1) \div 2], dist[j])

RootIsMax(dist) == \A j \in DOMAIN dist : FGe(dist[0], dist[j])

IsFull(dist) == \A j \in DOMAIN dist : dist[j] < Inf

(* C1: while only pushes have run on make_heap's graph, every row is a     *)
(* binary max-heap over its distances: each slot's parent holds a distance *)
(* at least as large, so slot 0 holds the maximum of the row.              *)
C1_HeapOrdered ==
    phase = "heap" =>
        \A row \in Rows :
            IsMaxHeap(graph.distances[row]) /\ RootIsMax(graph.distances[row])

\* A full row with two different weights, reached by an accepted last push.
C1_Witness ==
    /\ phase = "heap" /\ npush = MaxPushes /\ ret = 1
    /\ \E row \in Rows :
           /\ IsFull(graph.distances[row])
           /\ \E j, k \in DOMAIN graph.distances[row] :
                  graph.distances[row][j] # graph.distances[row][k]

NoDuplicateIds(indices) ==
    \A j, k \in DOMAIN indices :
        j # k /\ indices[j] = indices[k] => indices[j] = -1

(* C2: after checked pushes only (heap_push, checked_heap_push,            *)
(* checked_flagged_heap_push), no row holds the same non-sentinel id in    *)
(* two slots.                                                              *)
C2_NoDuplicates == \A row \in Rows : NoDuplicateIds(graph.indices[row])

\* The last checked push was rejected though every row still has a free
\* slot (so its weight was below the root): its id was in the row already.
C2_Witness ==
    /\ npush > 0 /\ ret = 0
    /\ \A row \in Rows : graph.distances[row][0] = Inf
    /\ \E row \in Rows : \E j \in DOMAIN graph.indices[row] : graph.indices[row][j] >= 0

RowOf(heap, row) ==
    [indices |-> heap.indices[row], distances |-> heap.distances[row],
     flags |-> heap.flags[row]]

\* What C3 says of one push, with result r, into the graph as it is.
PushAsClaimed(v, row, w, n, r) ==
    LET rejected == \/ FGe(w, graph.distances[row][0])
                    \/ v \in CheckedVariants /\ Contains(graph.indices[row], n)
    IN  /\ r.ret = (IF rejected THEN 0 ELSE 1)
        /\ r.ret = 0 => RowOf(r.heap, row) = RowOf(graph, row)
        /\ \A other \in Rows \ {row} : RowOf(r.heap, other) = RowOf(graph, other)

(* C3: in every state the pushes reach, every push (any variant, row,      *)
(* weight including +infinity, index including -1, flag) is rejected       *)
(* exactly when its weight is >= the row's root distance or, for a checked *)
(* variant, its index is in the row; a rejected push returns 0 and leaves  *)
(* the row as it was, an accepted one returns 1, and no push changes       *)
(* another row.                                                            *)
C3_RejectionExact ==
    phase = "heap" =>
        \A v \in Variants, row \in Rows, w \in Weights \cup {Inf},
           n \in {-1} \cup Indexes, f \in Flags :
            \A r \in {PushTo(graph, v, row, w, n, f)} :
                PushAsClaimed(v, row, w, n, r)

\* A rejected push after two pushes that left one id in two slots of a
\* row: the rejected one was checked, and met a row that only unchecked
\* pushes build.
C3_Witness ==
    /\ phase = "heap" /\ npush = MaxCalls /\ ret = 0
    /\ \E row \in Rows : ~NoDuplicateIds(graph.indices[row])

-----------------------------------------------------------------------------
(* C4 *)

Min(a, b) == IF a < b THEN a ELSE b

\* The real entries of a row, as the history records them.
Entries(row) ==
    {[w |-> graph.distances[row][j], n |-> graph.indices[row][j],
      f |-> graph.flags[row][j], fl |-> fl] :
        j \in {k \in 0 .. HeapSize - 1 : graph.indices[row][k] # -1},
        fl \in {e.fl : e \in pushed[row]}}

RealSlots(row) == {k \in 0 .. HeapSize - 1 : graph.indices[row][k] # -1}

BestKept(row) ==
    /\ Cardinality(RealSlots(row)) = Min(HeapSize, Cardinality(pushed[row]))
    /\ Cardinality(Entries(row)) = Cardinality(RealSlots(row))
    /\ Entries(row) \subseteq pushed[row]
    /\ \A e \in Entries(row) : \A x \in pushed[row] \ Entries(row) : x.w >= e.w

\* A push whose weight equals the worst weight of a full row changes nothing.
TieStep ==
    \A row \in Rows :
        \A x \in pushed'[row] \ pushed[row] :
            x.w = graph.distances[row][0] => graph' = graph /\ ret' = 0

\* make_heap(4, 2), then flagged_heap_push into row 0 of 1.0 / 2 / 1,
\* 0.5 / 1 / 1 and 2.0 / 3 / 0, then deheap_sort.
Scenario ==
    LET half == 1056964608
        one  == 1065353216
        two  == 1073741824
        h0 == make_heap(4, 2)
        h1 == RowResult3(h0, 0, flagged_heap_push(h0.distances[0], h0.indices[0],
                                                  h0.flags[0], one, 2, 1))
        h2 == RowResult3(h1.heap, 0, flagged_heap_push(h1.heap.distances[0],
                            h1.heap.indices[0], h1.heap.flags[0], half, 1, 1))
        h3 == RowResult3(h2.heap, 0, flagged_heap_push(h2.heap.distances[0],
                            h2.heap.indices[0], h2.heap.flags[0], two, 3, 0))
        s  == deheap_sort(h3.heap).out
    IN  /\ <<h1.ret, h2.ret, h3.ret>> = <<1, 1, 0>>
        /\ s[1][0] = (0 :> 1 @@ 1 :> 2)
        /\ s[2][0] = (0 :> half @@ 1 :> one)

(* C4: after pushes with pairwise-distinct indices and finite weights into *)
(* a row of make_heap's graph, the row holds min(size, pushes) real        *)
(* entries, each one a pushed (weight, index, flag) triple, and no pushed  *)
(* triple left out has a smaller weight than one kept; a push whose weight *)
(* equals the root of a full row is rejected; and the instance of the      *)
(* claim gives indices [1, 2], distances [0.5, 1.0].                       *)
C4_BestKept ==
    /\ [](Scenario /\ \A row \in Rows : BestKept(row))
    /\ [][TieStep]_vars

\* A full row that has seen more pushes than it has slots, two of which
\* had the same weight, with a flag set among the entries kept.
C4_Witness ==
    \E row \in Rows :
        /\ Cardinality(pushed[row]) > HeapSize
        /\ \E x, y \in pushed[row] : x # y /\ x.w = y.w
        /\ \E x, y \in pushed[row] : x.w < y.w
        /\ \E e \in Entries(row) : e.f = 1

-----------------------------------------------------------------------------
(* C5 *)

CountOf(a, x) == Cardinality({j \in DOMAIN a : a[j] = x})

SameBag(a, b) ==
    \A x \in {a[j] : j \in DOMAIN a} \cup {b[j] : j \in DOMAIN b} :
        CountOf(a, x) = CountOf(b, x)

PairsOf(indices, weights) == [j \in DOMAIN indices |-> <<indices[j], weights[j]>>]

NonDecreasing(w) == \A j \in 1 .. Shape(w) - 1 : FGe(w[j], w[j - 1])

SortStep ==
    phase = "heap" /\ phase' = "sorted" =>
        \A row \in DOMAIN graph.indices :
            /\ NonDecreasing(out'[2][row])
            /\ \A j, k \in DOMAIN out'[2][row] :
                   j < k /\ out'[2][row][j] = Inf => out'[2][row][k] = Inf
            /\ SameBag(PairsOf(graph.indices[row], graph.distances[row]),
                       PairsOf(out'[1][row], out'[2][row]))

(* C5: deheap_sort on a graph of max-heaps returns every row with its      *)
(* distances in non-decreasing order, the +infinity slots last, and with   *)
(* the same multiset of (index, distance) pairs as the row had before.     *)
C5_FinalizeSorts == [][SortStep]_vars

\* A sorted row with a tie, a strict step and a sentinel slot last, after
\* pushes that found the row full.
C5_Witness ==
    /\ phase = "sorted" /\ npush = SortPushes
    /\ out[2][0][0] = out[2][0][1]
    /\ out[2][0][1] < out[2][0][2]
    /\ out[2][0][2] < Inf
    /\ out[1][0] = graph.indices[0] /\ out[2][0] = graph.distances[0]

-----------------------------------------------------------------------------
(* C24 *)

\* The entry at slot j of a row: its index, its distance and its flag.
TripleAt(heap, row, j) ==
    <<heap.indices[row][j], heap.distances[row][j], heap.flags[row][j]>>

TriplesOfRow(heap, row) == {TripleAt(heap, row, j) : j \in DOMAIN heap.indices[row]}

\* deheap_sort leaves every row with the entries it had: the flag at a slot
\* is the flag that the index and the distance now at that slot had before.
LockstepStep ==
    phase = "heap" /\ phase' = "sorted" =>
        \A row \in DOMAIN graph.indices :
            TriplesOfRow(graph', row) = TriplesOfRow(graph, row)

(* C24: deheap_sort keeps the indices, the distances and the flags of      *)
(* every row co-indexed: after it, the flag at slot j of a row is the flag *)
(* that the (index, distance) entry now at slot j had before it.           *)
C24_FlagsInLockstep == [][LockstepStep]_vars

-----------------------------------------------------------------------------
(* Row and point ids of any value, and rows of no slots *)

\* The row ids tried: those of the graph, those that count from its end,
\* and one beyond each end.
RowArgs == (0 - NPoints) - 1 .. NPoints

\* a[k] is inside the array: a negative k counts from the end.
InBounds(a, k) == 0 - Shape(a) <= k /\ k < Shape(a)

WrapAround(a, k) == IF k < 0 THEN k + Shape(a) ELSE k

\* The row can be pushed into: it is inside the graph and has a slot 0.
Addressable(heap, row) ==
    /\ InBounds(heap.indices, row)
    /\ Shape(heap.indices[WrapAround(heap.indices, row)]) > 0

\* What an access outside an array may do, bounds not being checked: it
\* faults, or it reads and writes memory that is not the graph's and the
\* push returns what it finds there.
Unchecked(heap) ==
    {[heap |-> heap, ret |-> r, fault |-> b] : r \in {0, 1}, b \in BOOLEAN}

\* heap_push(heap, row, weight, index, flag) for any row.
RangeHeapPush(heap, row, weight, index, flag) ==
    IF Addressable(heap, row)
    THEN {[heap  |-> heap_push(heap, WrapAround(heap.indices, row),
                               weight, index, flag).heap,
           ret   |-> heap_push(heap, WrapAround(heap.indices, row),
                               weight, index, flag).ret,
           fault |-> FALSE]}
    ELSE Unchecked(heap)

\* A push of the low-memory updater for any row and id, after the pushes
\* that led to st: n_changes += added.
RangeCounted(st, r) ==
    [heap |-> r.heap, ret |-> st.ret + r.ret, fault |-> r.fault]

RangePushInto(st, row, d, idx) ==
    IF st.fault THEN {st}
    ELSE IF Addressable(st.heap, row)
    THEN {RangeCounted(st, [heap  |-> CheckedPushInto(st.heap,
                                          WrapAround(st.heap.indices, row), d, idx).heap,
                            ret   |-> CheckedPushInto(st.heap,
                                          WrapAround(st.heap.indices, row), d, idx).ret,
                            fault |-> FALSE])}
    ELSE {RangeCounted(st, r) : r \in Unchecked(st.heap)}

\* apply_graph_updates_low_memory with one lane on a batch of the one
\* triple (p, q, d).
RangeLowTriple(heap, p, q, d) ==
    IF Skipped(p, q) THEN {[heap |-> heap, ret |-> 0, fault |-> FALSE]}
    ELSE UNION {RangePushInto(st, q, d, p) :
                    st \in RangePushInto([heap |-> heap, ret |-> 0, fault |-> FALSE],
                                         p, d, q)}

\* make_heap with rows of HeapSize slots or of none.
InitRange ==
    \E size \in {0, HeapSize} :
        /\ graph = make_heap(NPoints, size)
        /\ phase = "heap"
        /\ ret = 0
        /\ npush = 0
        /\ out = NoResult
        /\ pushed = [row \in Rows |-> {}]
        /\ NoRound

\* The call has run with result r; out keeps the call's name and ids.
RangeDone(r, name, a, b) ==
    /\ graph' = r.heap
    /\ ret' = r.ret
    /\ phase' = IF r.fault THEN "error" ELSE phase
    /\ out' = <<name, a, b>>
    /\ npush' = npush + 1
    /\ UNCHANGED pushed
    /\ HeapFrame

RangePush ==
    \E row \in RowArgs, w \in Weights, n \in Indexes, f \in Flags :
        /\ npush < MaxCalls
        /\ phase = "heap"
        /\ \E r \in RangeHeapPush(graph, row, w, n, f) :
               RangeDone(r, "heap_push", row, row)

RangeUpdate ==
    \E p \in RowArgs, q \in RowArgs, d \in Weights :
        /\ npush < MaxCalls
        /\ phase = "heap"
        /\ \E r \in RangeLowTriple(graph, p, q, d) :
               RangeDone(r, "apply_graph_updates_low_memory", p, q)

NextRange == RangePush \/ RangeUpdate

SpecRange == InitRange /\ [][NextRange]_vars

-----------------------------------------------------------------------------
(* The initializers from a candidate table *)

\* The metric of the dense initializer on points of one coordinate.
Metric(x, y) == IF x >= y THEN x - y ELSE y - x

\* a[k] for an index that may be negative.
PyIndex(a, k) == a[IF k < 0 THEN k + Shape(a) ELSE k]

\* a[lo : hi] for 0 <= lo, hi <= len(a)
PySlice(a, lo, hi) == [k \in 0 .. hi - lo - 1 |-> a[lo + k]]

\* The number of coordinates that are not zero in the first i points.
RECURSIVE NonZeros(_, _)
NonZeros(x, i) ==
    IF i = 0 THEN 0 ELSE NonZeros(x, i - 1) + (IF x[i - 1] # 0 THEN 1 ELSE 0)

\* The rows that hold entry k of the compressed rows.
HoldersOf(x, k) == {i \in DOMAIN x : x[i] # 0 /\ NonZeros(x, i) = k}

\* The points as compressed sparse rows: data_indptr, data_indices,
\* data_vals.
ToCSR(x) ==
    [indptr  |-> [i \in 0 .. Shape(x) |-> NonZeros(x, i)],
     indices |-> [k \in 0 .. NonZeros(x, Shape(x)) - 1 |-> 0],
     vals    |-> [k \in 0 .. NonZeros(x, Shape(x)) - 1 |->
                     x[CHOOSE i \in HoldersOf(x, k) : TRUE]]]

\* The coordinate a compressed row stands for.
SparseValue(ind, val) == IF DOMAIN ind = {} THEN 0 ELSE val[0]

\* The metric of the sparse initializer: that of the dense one on the
\* points the compressed rows stand for.
SparseMetric(ind1, data1, ind2, data2) ==
    Metric(SparseValue(ind1, data1), SparseValue(ind2, data2))

\* One cell of the dense initializer.
DenseCell(st, tbl, x, i, idx) ==
    IF tbl[i][idx] >= 0
    THEN [heap  |-> RowResult3(st.heap, i,
                        flagged_heap_push(st.heap.distances[i], st.heap.indices[i],
                                          st.heap.flags[i],
                                          Metric(x[i], x[tbl[i][idx]]),
                                          tbl[i][idx], 1)).heap,
          evals |-> st.evals \cup {<<i, idx>>}]
    ELSE st

\* The heap with the push of the sparse initializer written back: its
\* first array is the row of indices, its second the row of distances.
SparseRowResult(heap, row, r) ==
    [indices   |-> [heap.indices EXCEPT ![row] = r.priorities],
     distances |-> [heap.distances EXCEPT ![row] = r.indices],
     flags     |-> [heap.flags EXCEPT ![row] = r.flags]]

SparseRowOf(a, indptr, j) == PySlice(a, PyIndex(indptr, j), PyIndex(indptr, j + 1))

\* One cell of the sparse initializer.
SparseCell(st, tbl, csr, i, idx) ==
    [heap  |-> SparseRowResult(st.heap, i,
                   flagged_heap_push(st.heap.indices[i], st.heap.distances[i],
                                     st.heap.flags[i],
                                     tbl[i][idx],
                                     SparseMetric(
                                         SparseRowOf(csr.indices, csr.indptr, i),
                                         SparseRowOf(csr.vals, csr.indptr, i),
                                         SparseRowOf(csr.indices, csr.indptr, tbl[i][idx]),
                                         SparseRowOf(csr.vals, csr.indptr, tbl[i][idx])),
                                     1)),
     evals |-> st.evals \cup {<<i, idx>>}]

\* The inner loop over the cells of row i, from cell idx on.
RECURSIVE DenseRowFrom(_, _, _, _, _)
DenseRowFrom(st, tbl, x, i, idx) ==
    IF idx >= Shape(tbl[i]) THEN st
    ELSE DenseRowFrom(DenseCell(st, tbl, x, i, idx), tbl, x, i, idx + 1)

RECURSIVE SparseRowFrom(_, _, _, _, _)
SparseRowFrom(st, tbl, csr, i, idx) ==
    IF idx >= Shape(tbl[i]) THEN st
    ELSE SparseRowFrom(SparseCell(st, tbl, csr, i, idx), tbl, csr, i, idx + 1)

Initializers == {"initalize_heap_from_graph_indices",
                 "sparse_initalize_heap_from_graph_indices"}

\* The candidate tables: a row of NNeighbors cells for each point, -1 for
\* no candidate.
Tables == [Vertices -> [0 .. NNeighbors - 1 -> -1 .. NVertices - 1]]

\* The points: point i at coordinate i, or the even points at 0 and the
\* odd ones at 2.
DataSets == {[i \in Vertices |-> i], [i \in Vertices |-> 2 * (i % 2)]}

InitInitialize ==
    \E tbl \in Tables, x \in DataSets, c \in Initializers :
        /\ graph = make_heap(NVertices, NNeighbors)
        /\ phase = "lanes"
        /\ ret = NoResult
        /\ npush = 0
        /\ out = <<>>
        /\ pushed = <<>>
        /\ call = c
        /\ n_threads = 1
        /\ updates = <<>>
        /\ pos = [n \in {0} |-> 0]
        /\ changes = <<>>
        /\ in_graph = <<>>
        /\ graph0 = make_heap(NVertices, NNeighbors)
        /\ writes = {}
        /\ inserts = 0
        /\ cleared = {}
        /\ candidates = NoResult
        /\ rng_state = NoResult
        /\ local_rng_state = NoResult
        /\ max_candidates = 0
        /\ graph_indices = tbl
        /\ data = x
        /\ evals = {}
        /\ table = <<>>
        /\ marked = {}
        /\ n_samples = 0
        /\ pool_size = 0
        /\ result = <<>>

\* An iteration of the outer loop of the dense initializer.
DenseRow ==
    /\ call = "initalize_heap_from_graph_indices"
    /\ phase = "lanes"
    /\ pos[0] < Shape(graph_indices)
    /\ \E r \in {DenseRowFrom([heap |-> graph, evals |-> evals],
                              graph_indices, data, pos[0], 0)} :
           /\ graph' = r.heap
           /\ evals' = r.evals
    /\ pos' = [pos EXCEPT ![0] = @ + 1]
    /\ cleared' = cleared \cup {pos[0]}
    /\ UNCHANGED <<phase, ret, npush, out, pushed, call, n_threads, updates,
                   changes, in_graph, graph0, writes, inserts, buildVars,
                   graph_indices, data, visitVars, sampleVars>>

\* An iteration of the prange of the sparse initializer, in any order.
SparseRow ==
    \E i \in DOMAIN graph_indices \ cleared :
        /\ call = "sparse_initalize_heap_from_graph_indices"
        /\ phase = "lanes"
        /\ \E r \in {SparseRowFrom([heap |-> graph, evals |-> evals],
                                   graph_indices, ToCSR(data), i, 0)} :
               /\ graph' = r.heap
               /\ evals' = r.evals
        /\ cleared' = cleared \cup {i}
        /\ UNCHANGED <<phase, ret, npush, out, pushed, call, n_threads, updates,
                       pos, changes, in_graph, graph0, writes, inserts, buildVars,
                       graph_indices, data, visitVars, sampleVars>>

InitializeReturn ==
    /\ call \in Initializers
    /\ phase = "lanes"
    /\ cleared = DOMAIN graph_indices
    /\ phase' = "done"
    /\ out' = graph
    /\ UNCHANGED <<graph, ret, npush, pushed, roundVars, buildVars, otherVars>>

NextInitialize == DenseRow \/ SparseRow \/ InitializeReturn

SpecInitialize == InitInitialize /\ [][NextInitialize]_vars

-----------------------------------------------------------------------------
(* Properties of the rounds *)

Done(c) == call = c /\ phase = "done"

(* C6: the high-memory updater ends with the graph that the low-memory     *)
(* updater ends with, from the same graph (in_graph[r] being the ids of    *)
(* row r) and the same batch in the same order: the same indices,          *)
(* distances and flags in every row.                                       *)
C6_Interchangeable ==
    Done("apply_graph_updates_high_memory") =>
        graph = LowMemoryOneLane(graph0, updates)

(* C7: in new_build_candidates and in apply_graph_updates_low_memory with  *)
(* n_threads lanes, a row is pushed into only by lane row mod n_threads,   *)
(* so that no two lanes ever push into the same row.                       *)
C7_OwnRows ==
    /\ \A w \in writes : w[1] = w[2] % n_threads
    /\ \A w1, w2 \in writes : w1[2] = w2[2] => w1[1] = w2[1]

\* Two lanes on three rows, all of them pushed into, while the lanes of the
\* candidate builder are still running.
C7_Witness ==
    /\ call = "new_build_candidates" /\ phase = "lanes" /\ n_threads = 2
    /\ writes = {<<0, 0>>, <<1, 1>>, <<0, 2>>}
    /\ pos[0] < pos[1]

(* C8: apply_graph_updates_low_memory with n_threads lanes ends, however   *)
(* the lanes interleave, with the graph that one lane alone ends with on   *)
(* the same graph and batch.                                               *)
C8_LanesAgree ==
    Done("apply_graph_updates_low_memory") =>
        graph = LowMemoryOneLane(graph0, updates)

\* Two lanes are done and each has changed a row of its own.
C8_Witness ==
    /\ Done("apply_graph_updates_low_memory") /\ n_threads = 2
    /\ \E i, j \in Vertices :
           /\ i % 2 = 0 /\ j % 2 = 1
           /\ RowOf(graph, i) # RowOf(graph0, i)
           /\ RowOf(graph, j) # RowOf(graph0, j)
    /\ changes[0] > 0 /\ changes[1] > 0

\* The ids that new_build_candidates offers to the new candidates of row i.
NewCandidatesOf(heap, i) ==
    {heap.indices[i][j] : j \in {k \in DOMAIN heap.indices[i] :
                                    heap.indices[i][k] >= 0 /\ heap.flags[i][k] # 0}}
    \cup {r \in DOMAIN heap.indices :
             \E k \in DOMAIN heap.indices[r] :
                 heap.indices[r][k] = i /\ heap.flags[r][k] # 0}

\* No row of the new candidates is offered more ids than it has slots.
NoOverflow(heap, mc) ==
    \A i \in DOMAIN heap.indices : Cardinality(NewCandidatesOf(heap, i)) <= mc

(* C9 as stated: new_build_candidates with n_threads lanes leaves the      *)
(* graph that one lane leaves on the same graph and rng_state, also when   *)
(* max_candidates is smaller than the number of candidates of a point.     *)
C9_SameAsOneLane ==
    Done("new_build_candidates") =>
        graph = BuildInOrder(graph0, max_candidates, rng_state, 1)

(* C9 amended: new_build_candidates with n_threads lanes leaves, however   *)
(* the lanes interleave, the graph that the lanes leave when they run one  *)
(* after the other: the indices and distances it had and the flags of the  *)
(* clearing pass.  This is the graph that one lane leaves whenever no row  *)
(* of the new candidates is offered more than max_candidates ids.          *)
C9_BuildDeterministic ==
    Done("new_build_candidates") =>
        /\ graph = BuildInOrder(graph0, max_candidates, rng_state, n_threads)
        /\ graph.indices = graph0.indices
        /\ graph.distances = graph0.distances
        /\ NoOverflow(graph0, max_candidates) =>
               graph = BuildInOrder(graph0, max_candidates, rng_state, 1)

\* Two lanes are done on a graph that offers a row more new candidates than
\* max_candidates, and the clearing pass has cleared some flags and kept
\* others.
C9_Witness ==
    /\ Done("new_build_candidates") /\ n_threads = 2
    /\ ~NoOverflow(graph0, max_candidates)
    /\ \E i \in Vertices : \E j, k \in DOMAIN graph.flags[i] :
           /\ graph0.flags[i][j] = 1 /\ graph.flags[i][j] = 0
           /\ graph0.flags[i][k] = 1 /\ graph.flags[i][k] = 1

Updaters == {"apply_graph_updates_low_memory", "apply_graph_updates_high_memory"}

\* A lane that steps over a triple with p = -1 or q = -1 changes neither
\* the graph nor a count.
SkipStep ==
    call \in Updaters =>
        \A n \in Lanes :
            /\ pos'[n] # pos[n]
            /\ Skipped(Triples(updates)[pos[n] + 1][1], Triples(updates)[pos[n] + 1][2])
            => UNCHANGED <<graph, changes, inserts, in_graph>>

(* C10: both updaters return the number of pushes that inserted an entry   *)
(* into a row; they return 0 exactly when the graph is as it was; and a    *)
(* triple with p = -1 or q = -1 causes no push and no count.               *)
C10_ChangeCount ==
    /\ [](\A c \in Updaters :
              Done(c) => ret = inserts /\ (ret = 0 <=> graph = graph0))
    /\ [][SkipStep]_vars

\* Two lanes are done with a batch of a skipped triple and a triple that
\* made both its pushes insert.
C10_Witness ==
    /\ Done("apply_graph_updates_low_memory") /\ n_threads = 2
    /\ Len(Triples(updates)) = 2
    /\ Skipped(Triples(updates)[1][1], Triples(updates)[1][2])
    /\ ret = 2
    /\ changes[0] = 1 /\ changes[1] = 1

-----------------------------------------------------------------------------
(* C21 *)

\* The ids that new_build_candidates offers to the old candidates of row i.
OldCandidatesOf(heap, i) ==
    {heap.indices[i][j] : j \in {k \in DOMAIN heap.indices[i] :
                                    heap.indices[i][k] >= 0 /\ heap.flags[i][k] = 0}}
    \cup {r \in DOMAIN heap.indices :
             \E k \in DOMAIN heap.indices[r] :
                 heap.indices[r][k] = i /\ heap.flags[r][k] = 0}

\* The slots of a candidate row that hold an id.
HeldSlots(row) == {k \in DOMAIN row : row[k] # -1}

\* A candidate row holds ids of the offered set only, none of them twice,
\* and as many of them as it has slots for.
RowSelects(row, offered) ==
    /\ {row[k] : k \in HeldSlots(row)} \subseteq offered
    /\ NoDuplicateIds(row)
    /\ Cardinality(HeldSlots(row)) = Min(max_candidates, Cardinality(offered))

(* C21: after new_build_candidates on a graph G, row i of the new          *)
(* candidates holds, without duplicates, ids that were flag-1 neighbours   *)
(* of i in G or points that had i as a flag-1 neighbour in G, row i of the *)
(* old candidates the same with flag 0; cells holding -1 contribute        *)
(* nothing; and each row holds min(max_candidates, number of distinct such *)
(* ids) ids.                                                               *)
C21_CandidatesSelected ==
    Done("new_build_candidates") =>
        /\ out = <<candidates.new.indices, candidates.old.indices>>
        /\ \A i \in Vertices :
               /\ RowSelects(out[1][i], NewCandidatesOf(graph0, i))
               /\ RowSelects(out[2][i], OldCandidatesOf(graph0, i))

\* Two lanes are done on a graph with new and old neighbours; a row was
\* offered the same id by a cell of its own and by a cell of that id's row
\* and holds it once, and a row was offered more ids than it holds.
C21_Witness ==
    /\ Done("new_build_candidates") /\ n_threads = 2
    /\ \E i \in Vertices :
           /\ NewCandidatesOf(graph0, i) # {}
           /\ OldCandidatesOf(graph0, i) # {}
           /\ Cardinality(OldCandidatesOf(graph0, i)) > Cardinality(HeldSlots(out[2][i]))
    /\ \E i \in Vertices : \E j \in DOMAIN graph0.indices[i] :
           /\ graph0.flags[i][j] # 0
           /\ \E k \in DOMAIN graph0.indices[graph0.indices[i][j]] :
                  /\ graph0.indices[graph0.indices[i][j]][k] = i
                  /\ graph0.flags[graph0.indices[i][j]][k] # 0
           /\ graph0.indices[i][j] \in {out[1][i][k] : k \in DOMAIN out[1][i]}

-----------------------------------------------------------------------------
(* C22 *)

\* The ids in row i of the new candidates.
SelectedFor(newc, i) == {newc.indices[i][k] : k \in DOMAIN newc.indices[i]}

\* The flags that the second prange leaves: 0 where the id of the cell is in
\* the row of the new candidates, the flag of the cell elsewhere.
FlagsCleared(heap, newc) ==
    [i \in DOMAIN heap.flags |->
        [j \in DOMAIN heap.flags[i] |->
            IF heap.indices[i][j] \in SelectedFor(newc, i) THEN 0 ELSE heap.flags[i][j]]]

\* The pushes (i, idx) into new_candidates[i] that a call on heap makes:
\* one for every cell that holds an id and whose flag is set.
ForwardPushes(heap) ==
    {<<c[1], heap.indices[c[1]][c[2]]>> :
        c \in {d \in (DOMAIN heap.indices) \X (DOMAIN heap.indices[0]) :
                  heap.indices[d[1]][d[2]] >= 0 /\ heap.flags[d[1]][d[2]] # 0}}

\* No step of the call changes an index or a distance or sets a flag.
FlagsOnlyStep ==
    call = "new_build_candidates" =>
        /\ graph'.indices = graph.indices
        /\ graph'.distances = graph.distances
        /\ \A i \in DOMAIN graph.flags : \A j \in DOMAIN graph.flags[i] :
               graph.flags[i][j] = 0 => graph'.flags[i][j] = 0

(* C22: new_build_candidates changes only flags of the graph: after it a   *)
(* cell has flag 0 if its id is in the row of the new candidates of its    *)
(* point and the flag it had otherwise, no flag goes from 0 to 1, indices  *)
(* and distances are as they were; and a call on the graph it leaves makes *)
(* no forward push (i, idx) of an id idx that it selected for row i.       *)
C22_ClearsOnlyFlags ==
    /\ [](Done("new_build_candidates") =>
              /\ graph.flags = FlagsCleared(graph0, candidates.new)
              /\ graph.indices = graph0.indices
              /\ graph.distances = graph0.distances
              /\ \A p \in ForwardPushes(graph) :
                     p[2] \notin SelectedFor(candidates.new, p[1]))
    /\ [][FlagsOnlyStep]_vars

\* Two lanes are done; a row had two flagged cells of which the call has
\* cleared one, the other being left for a forward push of the next call.
C22_Witness ==
    /\ Done("new_build_candidates") /\ n_threads = 2
    /\ \E i \in Vertices : \E j, k \in DOMAIN graph.flags[i] :
           /\ graph0.flags[i][j] = 1 /\ graph.flags[i][j] = 0
           /\ graph0.flags[i][k] = 1
           /\ <<i, graph.indices[i][k]>> \in ForwardPushes(graph)
           /\ graph.indices[i][j] \in SelectedFor(candidates.new, i)

-----------------------------------------------------------------------------
(* C23 *)

\* local_rng_state of lane n before its first draw: the caller's three
\* words, each plus n.
OffsetWords(n) == [k \in 0 .. 2 |-> ToWord(rng_state[k] + n)]

\* The cell that lane n is at holds an id, so that the lane draws.
DrawsAt(n) ==
    graph.indices[pos[n] \div NNeighbors][pos[n] % NNeighbors] >= 0

\* A step of lane n draws from the lane's own words and leaves the words of
\* the other lanes and of the caller as they are.
PrivateStep ==
    call = "new_build_candidates" =>
        /\ rng_state' = rng_state
        /\ \A n \in Lanes :
               pos'[n] # pos[n] =>
                   /\ local_rng_state'[n] =
                          IF DrawsAt(n) THEN tau_rand(local_rng_state[n]).state
                          ELSE local_rng_state[n]
                   /\ \A m \in Lanes \ {n} : local_rng_state'[m] = local_rng_state[m]

(* C23: new_build_candidates never changes the caller's rng_state: lane n  *)
(* starts from a copy whose three words are the caller's words plus n,     *)
(* every draw of a lane reads and writes that lane's copy only, and the    *)
(* caller's words are the same after the call as before it.                *)
C23_PrivateRng ==
    /\ [](call = "new_build_candidates" =>
              \A n \in Lanes : pos[n] = 0 => local_rng_state[n] = OffsetWords(n))
    /\ [][PrivateStep]_vars

\* Two lanes are done, both have drawn, and the caller's words are neither
\* lane's words.
C23_Witness ==
    /\ Done("new_build_candidates") /\ n_threads = 2
    /\ \A n \in Lanes : local_rng_state[n] # OffsetWords(n)
    /\ local_rng_state[0] # local_rng_state[1]
    /\ rng_state[0] = 12345

-----------------------------------------------------------------------------
(* C11 *)

FlaggedSlots(heap, row) == {j \in DOMAIN heap.flags[row] : heap.flags[row][j] = 1}

\* The calls of the history made on row, in order.
RECURSIVE CallsOn(_, _)
CallsOn(h, row) ==
    IF h = <<>> THEN <<>>
    ELSE IF Head(h)[1] = row THEN <<Head(h)>> \o CallsOn(Tail(h), row)
    ELSE CallsOn(Tail(h), row)

\* A call changes nothing but one flag: that of a flagged slot of its row
\* with the least distance, whose id it returns; with no flagged slot in
\* the row it returns -1 and changes nothing.
ExtractStep ==
    phase' = "extract" =>
        \E row \in Rows :
            /\ out' = Append(out, <<row, ret', out'[Len(out')][3]>>)
            /\ graph'.indices = graph.indices
            /\ graph'.distances = graph.distances
            /\ \A other \in Rows \ {row} : graph'.flags[other] = graph.flags[other]
            /\ IF FlaggedSlots(graph, row) = {}
               THEN ret' = -1 /\ graph' = graph
               ELSE \E j \in FlaggedSlots(graph, row) :
                        /\ ret' = graph.indices[row][j]
                        /\ out'[Len(out')][3] = graph.distances[row][j]
                        /\ \A k \in FlaggedSlots(graph, row) :
                               graph.distances[row][k] >= graph.distances[row][j]
                        /\ graph'.flags[row] = [graph.flags[row] EXCEPT ![j] = 0]

\* The calls on a row found distances in non-decreasing order, no flagged
\* slot left has a smaller one, and after a call that found nothing no
\* call found anything.
ExtractedInOrder(row) ==
    \A a, b \in DOMAIN CallsOn(out, row) :
        a < b =>
            /\ CallsOn(out, row)[a][3] <= CallsOn(out, row)[b][3]
            /\ CallsOn(out, row)[a][2] = -1 => CallsOn(out, row)[b][2] = -1

(* C11: calls of smallest_flagged on a row with no push in between return *)
(* the ids of the entries with flag 1 one per call, in non-decreasing      *)
(* distance order, each call clearing the flag of the entry it returns and *)
(* changing nothing else; once no flag is left every call returns -1 and   *)
(* leaves the row as it is.                                                *)
C11_ExtractInOrder ==
    /\ [][ExtractStep]_vars
    /\ [](phase = "extract" => \A row \in Rows : ExtractedInOrder(row))

\* Four calls on one row of three flagged entries, two of them at the same
\* distance: three ids, then -1.
C11_Witness ==
    /\ phase = "extract" /\ Len(out) = MaxExtracts
    /\ \E row \in Rows :
           /\ Len(CallsOn(out, row)) = MaxExtracts
           /\ out[1][3] = out[2][3] /\ out[2][3] < out[3][3]
           /\ out[3][2] >= 0 /\ out[4][2] = -1

-----------------------------------------------------------------------------
(* C12 *)

\* The cells of the candidate table that hold a candidate.
CandidateCells ==
    {c \in (DOMAIN graph_indices) \X (0 .. NNeighbors - 1) : graph_indices[c[1]][c[2]] >= 0}

\* The entries (index, distance, flag) of row i that are not sentinels.
EntriesOf(heap, i) ==
    [k \in {s \in DOMAIN heap.indices[i] : heap.indices[i][s] # -1} |->
        <<heap.indices[i][k], heap.distances[i][k], heap.flags[i][k]>>]

\* What the cells of row i of the table are to push: index j, distance
\* metric(i, j), flag new.
CandidatesOf(i) ==
    [idx \in {s \in DOMAIN graph_indices[i] : graph_indices[i][s] >= 0} |->
        <<graph_indices[i][idx], Metric(data[i], data[graph_indices[i][idx]]), 1>>]

\* The initializer c, when done, has evaluated the metric for the cells that
\* hold a candidate and for no other, and row i holds what the cells of row
\* i of the table are to push and nothing else.
AsClaimed(c) ==
    Done(c) =>
        /\ evals = CandidateCells
        /\ \A i \in Vertices : SameBag(EntriesOf(graph, i), CandidatesOf(i))

(* C12: the dense and the sparse initializer, on an all-sentinel graph and *)
(* a candidate table, evaluate the metric for the cells that hold a        *)
(* candidate and for no other, and leave in row i, for every candidate j   *)
(* of point i, an entry with index j, distance metric(i, j) and flag 1,    *)
(* and nothing else: so both leave the same graph.                         *)
C12_InitializersAgree ==
    /\ AsClaimed("initalize_heap_from_graph_indices")
    /\ AsClaimed("sparse_initalize_heap_from_graph_indices")

-----------------------------------------------------------------------------
(* C13, C14 *)

(* C13: rejection_sample(n_samples, pool_size, rng_state) with             *)
(* 0 <= n_samples <= pool_size and pool_size >= 1 returns, when it         *)
(* returns, n_samples values of 0 .. pool_size - 1, no two of them equal,  *)
(* whatever the state and the values drawn, negative ones too.             *)
C13_SampleDistinct ==
    Done("rejection_sample") /\ n_samples <= pool_size /\ pool_size >= 1 =>
        /\ DOMAIN out = 0 .. n_samples - 1
        /\ \A k \in DOMAIN out : 0 <= out[k] /\ out[k] < pool_size
        /\ \A k, l \in DOMAIN out : k # l => out[k] # out[l]

\* The whole pool was sampled, a negative value gave a sample, and a draw
\* was rejected.
C13_Witness ==
    /\ Done("rejection_sample") /\ n_samples = MaxPool /\ pool_size = MaxPool
    /\ pushed[1] >= 0 /\ pushed[2] < 0
    /\ out[1] = PyMod(pushed[2], pool_size)
    /\ Len(pushed) > n_samples

(* C14: rejection_sample with n_samples > pool_size takes no step but the  *)
(* one that rejects the call with an error, and that step draws nothing    *)
(* and leaves rng_state as it is.                                          *)
C14_RejectedUpFront ==
    [][call = "rejection_sample" /\ n_samples > pool_size =>
           phase' = "error" /\ rng_state' = rng_state /\ pushed' = pushed]_vars

-----------------------------------------------------------------------------
(* C15 *)

\* A push of a NaN weight returns 0 and leaves the graph as it was.
NaNStep ==
    npush' = npush + 1 /\ IsNaN(out'[2]) => ret' = 0 /\ graph' = graph

(* C15: a push whose weight is NaN, by flagged_heap_push or                *)
(* checked_flagged_heap_push, is rejected: it returns 0 and leaves the row *)
(* as it was, and every row is still a binary max-heap over its distances  *)
(* afterwards.                                                             *)
C15_NaNRejected ==
    /\ [][NaNStep]_vars
    /\ [](phase = "heap" => \A row \in Rows : IsMaxHeap(graph.distances[row]))

-----------------------------------------------------------------------------
(* C16 *)

\* The id is none of a row of the graph, nor the -1 of an update triple
\* that is skipped.
OutOfRange(name, k) ==
    ~(k \in DOMAIN graph.indices \/ (name = "apply_graph_updates_low_memory" /\ k = -1))

\* The call that made the step was given a row or point id out of range,
\* or a graph whose rows have no slot.
BadCall ==
    /\ npush' = npush + 1
    /\ \/ OutOfRange(out'[1], out'[2])
       \/ OutOfRange(out'[1], out'[3])
       \/ /\ \A row \in DOMAIN graph.indices : Shape(graph.indices[row]) = 0
          /\ ~(out'[1] = "apply_graph_updates_low_memory" /\ Skipped(out'[2], out'[3]))

(* C16: a push into a row that is not one of the graph's, an update triple *)
(* whose p or q is neither a row of the graph nor -1, and a push into a    *)
(* graph made with rows of no slots each end with an error and leave the   *)
(* graph as it was: no id is wrapped onto another row.                     *)
C16_InvalidArgument ==
    [][BadCall => phase' = "error" /\ graph' = graph]_vars

-----------------------------------------------------------------------------
(* C17 *)

\* Bit k of byte loc of the table.
BitAt(tbl, loc, k) == (tbl[loc] \div 2^k) % 2

\* A call of mark_visited sets bit (id & 7) of byte (id >> 3) and leaves
\* every other bit as it was; on an id marked before it changes nothing.
MarkStep ==
    out'[1] = "mark_visited" /\ npush' = npush + 1 =>
        /\ \A loc \in DOMAIN table, k \in 0 .. 7 :
               BitAt(table', loc, k) =
                   IF 8 * loc + k = out'[2] THEN 1 ELSE BitAt(table, loc, k)
        /\ out'[2] \in marked => table' = table

(* C17: on a zeroed table of ceil(n / 8) bytes and marks of ids of         *)
(* 0 .. n - 1, has_been_visited(table, x) is true exactly for the ids x    *)
(* marked before; mark_visited sets bit (id & 7) of byte (id >> 3) and no  *)
(* other, clears none, and changes nothing when the id was marked before.  *)
C17_VisitedExact ==
    /\ [](phase = "visit" =>
             /\ \A x \in VisitIds : has_been_visited(table, x) <=> x \in marked
             /\ out # <<>> /\ out[1] = "has_been_visited" => ret = (out[2] \in marked))
    /\ [][MarkStep]_vars

\* Ids of both bytes were marked, one of them twice, and a marked id and
\* one not marked that share a byte were asked for.
C17_Witness ==
    /\ phase = "visit" /\ npush = MaxMarks
    /\ Cardinality(marked) = MaxMarks - 1
    /\ \E x, y \in marked : ByteOf(x) # ByteOf(y)
    /\ out[1] = "has_been_visited" /\ ~ret
    /\ \E y \in marked : ByteOf(y) = ByteOf(out[2])

-----------------------------------------------------------------------------
(* C18 *)

(* C18: seed(state, v) sets the three words of the state to v + 0xFFFF,    *)
(* and two states seeded with the same v and stepped together by           *)
(* tau_rand_int return the same value at every draw and hold the same      *)
(* three words after it, whatever they held before the seeding.            *)
C18_SeedDeterministic ==
    phase = "seeded" =>
        /\ npush = 0 =>
               \A i \in {0, 1}, k \in 0 .. 2 :
                   ToInt32(local_rng_state[i][k]) = ret + 65535
        /\ local_rng_state[0] = local_rng_state[1]
        /\ \A d \in DOMAIN out : out[d][1] = out[d][2]

\* Two states that differed were seeded and drew MaxDraws values each,
\* negative ones and positive ones.
C18_Witness ==
    /\ phase = "seeded" /\ npush = MaxDraws /\ Len(out) = MaxDraws
    /\ \A k \in 0 .. 2 : pushed[1][k] # pushed[2][k]
    /\ \E d, e \in DOMAIN out : out[d][1] < 0 /\ out[e][1] > 0

-----------------------------------------------------------------------------
(* C19 *)

(* C19: while apply_graph_updates_high_memory runs on a graph whose rows   *)
(* hold no id twice, with in_graph[r] the ids of row r, and when it is     *)
(* done, no row holds the same id in two slots, and every id a row holds   *)
(* is in the in_graph set of that row.                                     *)
C19_HighMemoryNoDuplicates ==
    call = "apply_graph_updates_high_memory" =>
        \A r \in DOMAIN graph.indices :
            /\ NoDuplicateIds(graph.indices[r])
            /\ RowIds(graph)[r] \subseteq in_graph[r] \cup {-1}

-----------------------------------------------------------------------------
(* C20 *)

HasNaN(heap) ==
    \E row \in DOMAIN heap.distances : \E j \in DOMAIN heap.distances[row] :
        IsNaN(heap.distances[row][j])

\* The entries of the row that the step takes out of it.
Leaving(row) ==
    {e \in {EntriesOf(graph, row)[k] : k \in DOMAIN EntriesOf(graph, row)} :
        CountOf(EntriesOf(graph', row), e) < CountOf(EntriesOf(graph, row), e)}

\* What C20 says of the step of a push.
MonotoneStep ==
    \A row \in Rows :
        /\ Cardinality(DOMAIN EntriesOf(graph', row))
               >= Cardinality(DOMAIN EntriesOf(graph, row))
        /\ FGe(graph.distances[row][0], graph'.distances[row][0])
        /\ \A e \in Leaving(row) :
               /\ ret' = 1
               /\ row = out'[1]
               /\ FLt(out'[2], e[2])
               /\ e = <<graph.indices[row][0], graph.distances[row][0],
                        graph.flags[row][0]>>

(* C20: in every push into a row, by flagged_heap_push or                  *)
(* checked_flagged_heap_push, the number of entries of the row that are    *)
(* not sentinels does not decrease, the distance at the root does not      *)
(* increase, and an entry leaves the row only if the push is accepted, its *)
(* weight is strictly smaller than the distance of the entry, and the      *)
(* entry was at the root.                                                  *)
C20_Monotone == [][npush' = npush + 1 => MonotoneStep]_vars

\* The same of the pushes of a weight that is a number into rows that hold
\* no NaN.
MonotoneOnNumbers ==
    [][npush' = npush + 1 /\ ~HasNaN(graph) /\ ~IsNaN(out'[2]) => MonotoneStep]_vars

=============================================================================
